---- MODULE Spec2Model ----
(***************************************************************************)
(* Content Workflow MCP server: the dispatch shell (src/src/index.ts), the *)
(* four connectors (GitHubService, NotionService, GoogleCalendarService,   *)
(* WebSearchService) and the workflow orchestrator that composes them.     *)
(*                                                                         *)
(* Texts are sequences of tokens; the token "\n" is a line break, so that  *)
(* split / slice / join and substring tests are computed, not assumed.     *)
(***************************************************************************)
EXTENDS Integers, Sequences, FiniteSets, TLC

VARIABLES
    enabled,      \* WebSearchService.enabled, fixed at construction
    credentials,  \* GoogleCalendarService.oauth2Client.credentials
    pc,           \* position of the tool invocation being served
    tool,         \* request.params.name
    args,         \* request.params.arguments
    connCalls,    \* connector operations called by the invocation, in order
    vendorCalls,  \* vendor API calls issued by the invocation, in order
    research,     \* webSearchService.researchTopic: its local state
    outcomes,     \* WorkflowResult: the ordered WorkflowStepOutcome list
    result,       \* what the handler returned (or threw) to the caller
    created,      \* the branches earlier publish invocations derived and created
    env,          \* process.env: the configuration values the constructors read
    proc,         \* the server process: "starting", "running" or "crashed"
    tokenFile,    \* google-tokens.json on disk
    gen,          \* which issued credentials the file and the client hold
    inv           \* the connector operations in progress, one per handler call

\* What the composite operations of the orchestrator work on.
wfVars == <<pc, tool, args, connCalls, vendorCalls, research, outcomes, result,
           created>>

\* What a single connector operation and the process around it work on.
connVars == <<env, proc, tokenFile, gen, inv>>

vars == <<enabled, credentials, pc, tool, args, connCalls, vendorCalls,
          research, outcomes, result, created, env, proc, tokenFile, gen, inv>>

----------------------------------------------------------------------------
(* Bounds of the model *)

\* Largest number of RelatedTopics the search provider returns for a query.
MaxRelated == 4

----------------------------------------------------------------------------
(* Text helpers: JavaScript's string and array operations on token texts *)

NL == "\n"

Min(a, b) == IF a <= b THEN a ELSE b

Max(a, b) == IF a >= b THEN a ELSE b

\* Array.prototype.slice(start, end) for start >= 0; a negative end counts
\* from the end of the array.
Slice(s, start, end) ==
    LET e == IF end < 0 THEN Max(Len(s) + end, 0) ELSE Min(end, Len(s))
    IN  IF start >= e THEN << >> ELSE SubSeq(s, start + 1, e)

\* String.prototype.split('\n'): the lines of a text (always at least one).
RECURSIVE Split(_)
Split(t) ==
    IF \A i \in 1..Len(t) : t[i] # NL
    THEN <<t>>
    ELSE LET k == CHOOSE i \in 1..Len(t) :
                      t[i] = NL /\ \A j \in 1..(i - 1) : t[j] # NL
         IN  <<SubSeq(t, 1, k - 1)>> \o Split(SubSeq(t, k + 1, Len(t)))

\* Array.prototype.join(sep) of an array of texts.
RECURSIVE Join(_, _)
Join(parts, sep) ==
    IF Len(parts) = 0 THEN << >>
    ELSE IF Len(parts) = 1 THEN parts[1]
    ELSE parts[1] \o sep \o Join(Tail(parts), sep)

\* String.prototype.includes: pat occurs in t as a contiguous run.
Includes(t, pat) ==
    \E i \in 0..(Len(t) - Len(pat)) : SubSeq(t, i + 1, i + Len(pat)) = pat

----------------------------------------------------------------------------
(* Outcomes of the vendor APIs (the environment) *)

VOk == [ok |-> TRUE, message |-> << >>]

VErr(m) == [ok |-> FALSE, message |-> m]

\* `error instanceof Error ? error.message : 'Unknown error'` under a prefix.
WrapErrorLost(prefix, v) == <<prefix, "Unknown", "error">>

WrapError(prefix, v) == <<prefix>> \o v.message

\* What a connector operation hands back: a ToolCallResult (ok) or a thrown
\* Error (not ok, text = its message), and the vendor calls it issued.
Returned(text, vcalls) == [ok |-> TRUE, text |-> text, vcalls |-> vcalls]

Thrown(message, vcalls) == [ok |-> FALSE, text |-> message, vcalls |-> vcalls]

\* One vendor API call as the invocation's log keeps it.
VCall(api, arg, v) ==
    [api |-> api, arg |-> arg, ok |-> v.ok, message |-> v.message]

----------------------------------------------------------------------------
(* GitHubService (src/src/services/github.ts) *)

\* z.string().default(d) and optional fields of an argument bag.
Default(a, f, d) == IF f \in DOMAIN a THEN a[f] ELSE d

IssueUrl == <<"https://github.com/o/r/issues/1">>

PullUrl == <<"https://github.com/o/r/pull/2">>

\* createIssue whose success text leaves out the issue's URL.
createIssueNoUrl(a, v) ==
    LET calls == <<VCall("issues.create", [title |-> a.title], v)>>
    IN  IF v.ok
        THEN Returned(<<"GitHub issue created successfully!", NL, NL,
                        "**Issue #1**:">> \o a.title
                      \o <<NL, NL, "Status:", "open">>, calls)
        ELSE Thrown(WrapError("Failed to create GitHub issue:", v), calls)

createIssue(a, v) ==
    LET calls == <<VCall("issues.create", [title |-> a.title], v)>>
    IN  IF v.ok
        THEN Returned(<<"GitHub issue created successfully!", NL, NL,
                        "**Issue #1**:">> \o a.title
                      \o <<NL, NL, "URL:">> \o IssueUrl
                      \o <<NL, NL, "Status:", "open">>, calls)
        ELSE Thrown(WrapError("Failed to create GitHub issue:", v), calls)

\* `ref.object.sha` of the answer to git.getRef; undefined when it has none.
ShaOf(v) == IF "sha" \in DOMAIN v THEN v.sha ELSE "undefined"

\* createBranch that creates the ref from a commit it remembers, not from the
\* one the lookup returned.
createBranchStaleSha(a, vGet, vCreate) ==
    LET base == Default(a, "baseBranch", <<"main">>)
        get  == VCall("git.getRef", [ref |-> <<"heads/">> \o base], vGet)
        mk   == VCall("git.createRef",
                      [ref |-> <<"refs/heads/">> \o a.branchName,
                       sha |-> "sha-1"], vCreate)
    IN  IF ~vGet.ok
        THEN Thrown(WrapError("Failed to create GitHub branch:", vGet), <<get>>)
        ELSE IF ~vCreate.ok
        THEN Thrown(WrapError("Failed to create GitHub branch:", vCreate),
                    <<get, mk>>)
        ELSE Returned(<<"Branch">> \o a.branchName
                      \o <<"created successfully from">> \o base, <<get, mk>>)

\* createBranch answering a failed call with a success text instead of throwing.
createBranchNoThrow(a, vGet, vCreate) ==
    Returned(<<"Branch">> \o a.branchName \o <<"created successfully from">>
             \o Default(a, "baseBranch", <<"main">>),
             <<VCall("git.getRef",
                     [ref |-> <<"heads/">> \o Default(a, "baseBranch", <<"main">>)],
                     vGet)>>
             \o (IF vGet.ok
                 THEN <<VCall("git.createRef",
                              [ref |-> <<"refs/heads/">> \o a.branchName,
                               sha |-> ShaOf(vGet)], vCreate)>>
                 ELSE << >>))

\* getRef on the base branch, then createRef with the sha it returned.
createBranch(a, vGet, vCreate) ==
    LET base == Default(a, "baseBranch", <<"main">>)
        get  == VCall("git.getRef", [ref |-> <<"heads/">> \o base], vGet)
        mk   == VCall("git.createRef",
                      [ref |-> <<"refs/heads/">> \o a.branchName,
                       sha |-> ShaOf(vGet)], vCreate)
    IN  IF ~vGet.ok
        THEN Thrown(WrapError("Failed to create GitHub branch:", vGet), <<get>>)
        ELSE IF ~vCreate.ok
        THEN Thrown(WrapError("Failed to create GitHub branch:", vCreate),
                    <<get, mk>>)
        ELSE Returned(<<"Branch">> \o a.branchName
                      \o <<"created successfully from">> \o base
                      \o <<NL, NL, "Branch URL:", "https://github.com/o/r/tree/">>
                      \o a.branchName, <<get, mk>>)

createPullRequest(a, v) ==
    LET base  == Default(a, "base", <<"main">>)
        calls == <<VCall("pulls.create", [head |-> a.head, base |-> base], v)>>
    IN  IF v.ok
        THEN Returned(<<"Pull request created successfully!", NL, NL,
                        "**PR #2**:">> \o a.title
                      \o <<NL, NL, "URL:">> \o PullUrl
                      \o <<NL, NL, "Status:", "open", NL, NL, "From:">> \o a.head
                      \o <<"To:">> \o base, calls)
        ELSE Thrown(WrapError("Failed to create GitHub pull request:", v), calls)

----------------------------------------------------------------------------
(* NotionService (src/unnamed/part_001) *)

\* The id the workspace gives a created page.
NewPageId == <<"p", "-", "1">>

\* id.replace(/-/g, '')
StripDashes(id) == SelectSeq(id, LAMBDA t : t # "-")

NotionUrl(id) == <<"https://notion.so/">> \o StripDashes(id)

\* tags.join(', ') || 'None'
JoinOrNone(items) ==
    IF Join(items, <<",">>) = << >> THEN <<"None">> ELSE Join(items, <<",">>)

createPage(a, v) ==
    LET tags  == Default(a, "tags", << >>)
        calls == <<VCall("pages.create", [title |-> a.title], v)>>
    IN  IF v.ok
        THEN Returned(<<"Notion page created successfully!", NL, NL,
                        "**Title**:">> \o a.title
                      \o <<NL, NL, "**Page ID**:">> \o NewPageId
                      \o <<NL, NL, "**URL**:">> \o NotionUrl(NewPageId)
                      \o <<NL, NL, "**Status**:", "Draft", NL, NL, "**Tags**:">>
                      \o JoinOrNone(tags), calls)
        ELSE Thrown(WrapError("Failed to create Notion page:", v), calls)

\* updatePage that leaves the content where it is: pages.update alone.
updatePageNoAppend(a, vUpdate, vAppend) ==
    LET upd == VCall("pages.update", [page_id |-> a.pageId, status |-> << >>],
                     vUpdate)
    IN  IF ~vUpdate.ok
        THEN Thrown(WrapError("Failed to update Notion page:", vUpdate), <<upd>>)
        ELSE Returned(<<"Notion page updated successfully!", NL, NL,
                        "**Page ID**:">> \o a.pageId, <<upd>>)

\* updatePage that puts the old properties back when the append has failed.
updatePageReverting(a, vUpdate, vAppend) ==
    LET has(f) == f \in DOMAIN a /\ a[f] # << >>
        upd == VCall("pages.update",
                     [page_id |-> a.pageId,
                      status |-> IF has("status") THEN a.status ELSE << >>],
                     vUpdate)
        app == VCall("blocks.children.append", [block_id |-> a.pageId], vAppend)
        old == VCall("pages.update", [page_id |-> a.pageId, status |-> << >>], VOk)
    IN  IF ~vUpdate.ok
        THEN Thrown(WrapError("Failed to update Notion page:", vUpdate), <<upd>>)
        ELSE IF has("content") /\ ~vAppend.ok
        THEN Thrown(WrapError("Failed to update Notion page:", vAppend),
                    <<upd, app, old>>)
        ELSE Returned(<<"Notion page updated successfully!", NL, NL,
                        "**Page ID**:">> \o a.pageId,
                      IF has("content") THEN <<upd, app>> ELSE <<upd>>)

\* updatePage that calls pages.update once more when it has failed.
updatePageRetry(a, vUpdate, vAppend) ==
    LET upd(v) == VCall("pages.update", [page_id |-> a.pageId, status |-> << >>], v)
    IN  IF vUpdate.ok
        THEN Returned(<<"Notion page updated successfully!", NL, NL,
                        "**Page ID**:">> \o a.pageId, <<upd(vUpdate)>>)
        ELSE IF vAppend.ok
        THEN Returned(<<"Notion page updated successfully!", NL, NL,
                        "**Page ID**:">> \o a.pageId,
                      <<upd(vUpdate), upd(vAppend)>>)
        ELSE Thrown(WrapError("Failed to update Notion page:", vAppend),
                    <<upd(vUpdate), upd(vAppend)>>)

\* pages.update first; blocks.children.append only when content is given.
updatePage(a, vUpdate, vAppend) ==
    LET has(f) == f \in DOMAIN a /\ a[f] # << >>
        upd == VCall("pages.update",
                     [page_id |-> a.pageId,
                      status |-> IF has("status") THEN a.status ELSE << >>],
                     vUpdate)
        app == VCall("blocks.children.append", [block_id |-> a.pageId], vAppend)
    IN  IF ~vUpdate.ok
        THEN Thrown(WrapError("Failed to update Notion page:", vUpdate), <<upd>>)
        ELSE IF has("content") /\ ~vAppend.ok
        THEN Thrown(WrapError("Failed to update Notion page:", vAppend),
                    <<upd, app>>)
        ELSE Returned(<<"Notion page updated successfully!", NL, NL,
                        "**Page ID**:">> \o a.pageId
                      \o <<NL, NL, "**URL**:">> \o NotionUrl(a.pageId) \o <<NL, NL>>
                      \o (IF has("title")
                          THEN <<"**New Title**:">> \o a.title \o <<NL, NL>>
                          ELSE << >>)
                      \o (IF has("status")
                          THEN <<"**New Status**:">> \o a.status \o <<NL, NL>>
                          ELSE << >>)
                      \o (IF has("content")
                          THEN <<"**Content added**", NL, NL>> ELSE << >>),
                      IF has("content") THEN <<upd, app>> ELSE <<upd>>)

\* getPage with a failed block listing read as an empty page.
getPageIgnoreListFailure(a, vRetrieve, vList) ==
    LET ret == VCall("pages.retrieve", [page_id |-> a.pageId], vRetrieve)
        lst == VCall("blocks.children.list", [block_id |-> a.pageId], vList)
    IN  IF ~vRetrieve.ok
        THEN Thrown(WrapError("Failed to get Notion page:", vRetrieve), <<ret>>)
        ELSE Returned(<<"**Page Details**", NL, NL, "**Title**:", "Stored", "title",
                        NL, NL, "**URL**:">> \o NotionUrl(a.pageId)
                      \o <<NL, NL, "**Content**:", NL>>, <<ret, lst>>)

\* pages.retrieve, then blocks.children.list; either failure is re-thrown.
getPage(a, vRetrieve, vList) ==
    LET ret == VCall("pages.retrieve", [page_id |-> a.pageId], vRetrieve)
        lst == VCall("blocks.children.list", [block_id |-> a.pageId], vList)
    IN  IF ~vRetrieve.ok
        THEN Thrown(WrapError("Failed to get Notion page:", vRetrieve), <<ret>>)
        ELSE IF ~vList.ok
        THEN Thrown(WrapError("Failed to get Notion page:", vList), <<ret, lst>>)
        ELSE Returned(<<"**Page Details**", NL, NL, "**Title**:", "Stored", "title",
                        NL, NL, "**Status**:", "Draft", NL, NL, "**Tags**:", "None",
                        NL, NL, "**URL**:">> \o NotionUrl(a.pageId)
                      \o <<NL, NL, "**Content**:", NL, "first", "paragraph", NL,
                           "second", "paragraph">>, <<ret, lst>>)

----------------------------------------------------------------------------
(* GoogleCalendarService (src/src/services/github.ts, second half) *)

\* Credentials as the OAuth2 client holds them: whether an access token and a
\* refresh token are present, and whether expiry_date is already in the past.
NoCredentials ==
    [access_token |-> FALSE, refresh_token |-> FALSE, expired |-> FALSE]

\* google-tokens.json as the constructor finds it.
TokenFiles ==
    { [state |-> st, tokens |-> NoCredentials] : st \in {"missing", "corrupt"} }
    \cup
    { [state |-> "tokens",
       tokens |-> [access_token |-> TRUE, refresh_token |-> TRUE, expired |-> e]] :
        e \in BOOLEAN }

\* loadTokens at construction: a missing or unparsable file leaves the client
\* without credentials.
loadTokens(file) ==
    IF file.state = "tokens" THEN file.tokens ELSE NoCredentials

\* The messages of the two errors ensureAuthenticated throws, word by word.
AuthRequiredMessage ==
    <<"Google", "Calendar", "authentication", "required.", "Please", "run", "the",
      "OAuth", "setup", "first:", "npm", "run", "oauth-setup">>

RefreshFailedMessage ==
    <<"Google", "Calendar", "token", "expired", "and", "could", "not", "be",
      "refreshed.", "Please", "re-authenticate.">>

\* ensureAuthenticated that lets an expired token through without a refresh.
ensureAuthenticatedNoRefresh(creds, vRefresh) ==
    IF ~creds.access_token
    THEN [ok |-> FALSE, creds |-> creds, vcalls |-> << >>,
          message |-> AuthRequiredMessage]
    ELSE [ok |-> TRUE, creds |-> creds, vcalls |-> << >>, message |-> << >>]

\* ensureAuthenticated that goes on with the old token when the refresh fails.
ensureAuthenticatedLenient(creds, vRefresh) ==
    LET call == VCall("oauth2.refreshAccessToken", << >>, vRefresh)
    IN  IF ~creds.access_token
        THEN [ok |-> FALSE, creds |-> creds, vcalls |-> << >>,
              message |-> AuthRequiredMessage]
        ELSE IF ~creds.expired
        THEN [ok |-> TRUE, creds |-> creds, vcalls |-> << >>, message |-> << >>]
        ELSE IF ~creds.refresh_token \/ ~vRefresh.ok
        THEN [ok |-> TRUE, creds |-> creds, message |-> << >>,
              vcalls |-> IF creds.refresh_token THEN <<call>> ELSE << >>]
        ELSE [ok |-> TRUE, vcalls |-> <<call>>, message |-> << >>,
              creds |-> [access_token |-> TRUE, refresh_token |-> TRUE,
                         expired |-> FALSE]]

\* ensureAuthenticated: throws without an access token; refreshes an expired
\* token (one call to the token endpoint, none when no refresh token is set).
ensureAuthenticated(creds, vRefresh) ==
    LET call == VCall("oauth2.refreshAccessToken", << >>, vRefresh)
    IN  IF ~creds.access_token
        THEN [ok |-> FALSE, creds |-> creds, vcalls |-> << >>,
              message |-> AuthRequiredMessage]
        ELSE IF ~creds.expired
        THEN [ok |-> TRUE, creds |-> creds, vcalls |-> << >>, message |-> << >>]
        ELSE IF ~creds.refresh_token
        THEN [ok |-> FALSE, creds |-> creds, vcalls |-> << >>,
              message |-> RefreshFailedMessage]
        ELSE IF ~vRefresh.ok
        THEN [ok |-> FALSE, creds |-> creds, vcalls |-> <<call>>,
              message |-> RefreshFailedMessage]
        ELSE [ok |-> TRUE, vcalls |-> <<call>>, message |-> << >>,
              creds |-> [access_token |-> TRUE, refresh_token |-> TRUE,
                         expired |-> FALSE]]

\* new Date(t).toLocaleString()
LocaleString(t) == <<ToString(t)>>

MockEventText(a) ==
    <<"**Mock Calendar Event Created**", NL, NL, "**Event**:">> \o a.title
    \o <<NL, NL, "**Start**:">> \o LocaleString(a.startTime)
    \o <<NL, "**End**:">> \o LocaleString(a.endTime)
    \o <<NL, NL, "**Description**:">>
    \o Default(a, "description", <<"Content development deadline">>)
    \o <<NL, NL, "**Attendees**:">> \o JoinOrNone(Default(a, "attendees", << >>))
    \o <<NL, NL, "*Note: This is a mock response.",
         "In production, complete OAuth authentication",
         "to create real calendar events.*">>

EventText(a) ==
    <<"Calendar event created successfully!", NL, NL, "**Event**:">> \o a.title
    \o <<NL, NL, "**Start**:">> \o LocaleString(a.startTime)
    \o <<NL, "**End**:">> \o LocaleString(a.endTime)
    \o <<NL, NL, "**Description**:">>
    \o Default(a, "description", <<"Content development deadline">>)
    \o <<NL, NL, "**Attendees**:">> \o JoinOrNone(Default(a, "attendees", << >>))
    \o <<NL, NL, "**Event URL**:", "https://calendar.google.com/event?eid=1">>

\* createEvent: any error of the try block (authentication, refresh, the insert
\* call) is caught and a mock ToolCallResult is returned in its place.
createEvent(a, creds, vRefresh, vInsert) ==
    LET auth == ensureAuthenticated(creds, vRefresh)
        ins  == VCall("events.insert",
                      [summary |-> a.title, start |-> a.startTime,
                       end |-> a.endTime], vInsert)
    IN  IF ~auth.ok
        THEN [ok |-> TRUE, text |-> MockEventText(a), vcalls |-> auth.vcalls,
              creds |-> auth.creds]
        ELSE IF ~vInsert.ok
        THEN [ok |-> TRUE, text |-> MockEventText(a),
              vcalls |-> auth.vcalls \o <<ins>>, creds |-> auth.creds]
        ELSE [ok |-> TRUE, text |-> EventText(a),
              vcalls |-> auth.vcalls \o <<ins>>, creds |-> auth.creds]

----------------------------------------------------------------------------
(* WebSearchService (src/src/services/web-search.ts) *)

\* What the search provider answers to a query of a research loop: a network
\* failure, an answer with no AbstractText and no RelatedTopics, or an answer
\* with an AbstractText and MaxRelated RelatedTopics.
ProviderOutcomes ==
    { [ok |-> FALSE, abstract |-> FALSE, related |-> 0],
      [ok |-> TRUE, abstract |-> FALSE, related |-> 0],
      [ok |-> TRUE, abstract |-> TRUE, related |-> MaxRelated] }

InstantAnswer ==
    [title |-> <<"Heading">>, url |-> <<"https://duckduckgo.com/Heading">>,
     snippet |-> <<"Abstract", "text">>, type |-> "instant_answer"]

\* data.RelatedTopics[i - 1] as the result entry the map builds from it:
\* the title is topic.Text.split(' - ')[0].
RelatedTopic(i) ==
    [title |-> <<"Related", ToString(i)>>,
     url |-> <<"https://duckduckgo.com/r", ToString(i)>>,
     snippet |-> <<"Related", ToString(i), "-", "description">>,
     type |-> "related_topic"]

\* The two filler entries; encodeURIComponent(query) is kept as the query's
\* own tokens (nothing below reads the urls).
mockResults(query) ==
    << [title |-> <<"Search result for:">> \o query,
        url |-> <<"https://example.com/search?q=">> \o query,
        snippet |-> <<"This is a sample search result for">> \o query
                    \o <<"In a real implementation, this would contain",
                         "actual web search results.">>,
        type |-> "search_result"],
       [title |-> <<"More information about:">> \o query,
        url |-> <<"https://sample.org/info/">> \o query,
        snippet |-> <<"Additional information and resources related to">>
                    \o query
                    \o <<"This demonstrates the web search functionality.">>,
        type |-> "search_result"] >>

\* The results array of a live search: instant answer, related topics, then
\* mock entries while fewer than maxResults.
SearchResults(query, maxResults, v) ==
    LET r1 == IF v.abstract THEN <<InstantAnswer>> ELSE << >>
        topics == [i \in 1..v.related |-> RelatedTopic(i)]
        r2 == IF v.related > 0
              THEN r1 \o Slice(topics, 0, Min(maxResults - Len(r1), 3))
              ELSE r1
    IN  IF Len(r2) < maxResults
        THEN r2 \o Slice(mockResults(query), 0, maxResults - Len(r2))
        ELSE r2

ResultBlock(results, i) ==
    <<ToString(i), ".", "**">> \o results[i].title
    \o <<"**", NL, "URL:">> \o results[i].url
    \o <<NL>> \o results[i].snippet
    \o <<NL, "Type:", results[i].type>>

MockSearchText(query) ==
    <<"**Mock Web Search Results for:">> \o query
    \o <<"**", NL, NL, "**Result 1**:", "Example.com - Sample search result about">>
    \o query
    \o <<NL, "**Result 2**:", "Sample.org - Another relevant result for">> \o query
    \o <<NL, "**Result 3**:", "Test.net - Additional information about">> \o query
    \o <<NL, NL, "*Note: This is a mock response.",
         "Enable WEB_SEARCH_ENABLED=true to perform real web searches.*">>

ErrorSearchText(query) ==
    <<"**Web Search Results for:">> \o query
    \o <<"**", "(Mock due to error)", NL, NL, "1.", "**Sample Result 1**", NL,
         "URL:", "https://example.com", NL,
         "This is a sample search result for">> \o query
    \o <<"The actual search encountered an error.", NL, "Type:", "search_result",
         NL, NL, "2.", "**Sample Result 2**", NL, "URL:", "https://sample.org", NL,
         "Another sample result demonstrating the search functionality.", NL,
         "Type:", "search_result">>

\* search: never throws for a valid argument bag. Disabled: mock text and no
\* network call. Live: one GET; a failure is caught and answered with mock text.
search(isEnabled, a, v) ==
    LET maxResults == Default(a, "maxResults", 5)
        call == [api |-> "axios.get", arg |-> [q |-> a.query], ok |-> v.ok,
                 message |-> IF v.ok THEN << >> ELSE <<"timeout">>]
        results == SearchResults(a.query, maxResults, v)
    IN  IF ~isEnabled THEN Returned(MockSearchText(a.query), << >>)
        ELSE IF ~v.ok THEN Returned(ErrorSearchText(a.query), <<call>>)
        ELSE Returned(<<"**Web Search Results for:">> \o a.query
                      \o <<"**", NL, NL>>
                      \o Join([i \in 1..Len(results) |-> ResultBlock(results, i)],
                              <<NL, NL>>), <<call>>)

\* searchQueries of researchTopic, after z.enum([...]).default('comprehensive').
searchQueriesBasicDefault(a) ==
    IF Default(a, "depth", "basic") = "comprehensive"
    THEN <<a.topic, a.topic \o <<"overview">>, a.topic \o <<"latest trends">>,
           a.topic \o <<"best practices">>, a.topic \o <<"examples">>>>
    ELSE <<a.topic>>

searchQueries(a) ==
    IF Default(a, "depth", "comprehensive") = "comprehensive"
    THEN <<a.topic, a.topic \o <<"overview">>, a.topic \o <<"latest trends">>,
           a.topic \o <<"best practices">>, a.topic \o <<"examples">>>>
    ELSE <<a.topic>>

\* One element of results.map(r => `**${r.query}**:\n${...}...`).
KeyFindingFourLines(r) ==
    <<"**">> \o r.query \o <<"**:", NL>>
    \o Join(Slice(Split(r.results), 0, 4), <<NL>>) \o <<"...">>

KeyFinding(r) ==
    <<"**">> \o r.query \o <<"**:", NL>>
    \o Join(Slice(Split(r.results), 0, 5), <<NL>>) \o <<"...">>

KeyFindings(results) == [i \in 1..Len(results) |-> KeyFinding(results[i])]

\* The summary text researchTopic returns.
ResearchSummary(topic, depth, queries, results) ==
    <<"**Research Summary for:">> \o topic
    \o <<"**", NL, NL, "**Research Depth**:", depth, NL, NL,
         "**Search Queries Used**:", NL>>
    \o Join([i \in 1..Len(queries) |-> <<"*">> \o queries[i]], <<NL>>)
    \o <<NL, NL, "**Key Findings**:", NL>>
    \o Join(KeyFindings(results), <<NL, NL>>)
    \o <<NL, NL, "**Recommendations**:", NL,
         "Consider the latest trends and best practices identified", NL,
         "Review multiple sources for comprehensive understanding", NL,
         "Focus on practical examples and real-world applications">>

NoResearch ==
    [topic |-> << >>, depth |-> "", queries |-> << >>, searched |-> << >>,
     results |-> << >>, findings |-> << >>]

----------------------------------------------------------------------------
(* ContentWorkflowService: the orchestrator called by the dispatch shell    *)
(* (src/src/index.ts, lines 24-29 and 275-280)                              *)

\* Offset of the milestone reminder before the deadline, and an event's length.
MilestoneOffset == 3

EventLength == 1

\* The rest of the line that follows the first occurrence of label in text.
LineAfter(text, label) ==
    IF \E i \in 1..Len(text) : text[i] = label
    THEN LET k == CHOOSE i \in 1..Len(text) :
                      text[i] = label /\ \A j \in 1..(i - 1) : text[j] # label
         IN  Split(SubSeq(text, k + 1, Len(text)))[1]
    ELSE << >>

\* The label that introduces a step's produced reference in a connector text.
RefLabel(step) ==
    CASE step = "page"      -> "**URL**:"
      [] step = "fetch"     -> "**URL**:"
      [] step = "update"    -> "**URL**:"
      [] step = "issue"     -> "URL:"
      [] step = "pr"        -> "URL:"
      [] step = "branch"    -> "Branch URL:"
      [] OTHER              -> ""

\* WorkflowStepOutcome of a step whose connector call returned or threw.
StepOutcomeDropFailure(step, r) ==
    IF r.ok
    THEN <<[step |-> step, status |-> "success", text |-> r.text,
            ref |-> LineAfter(r.text, RefLabel(step))]>>
    ELSE << >>

StepOutcome(step, r) ==
    <<[step |-> step, status |-> IF r.ok THEN "success" ELSE "failed",
       text |-> r.text,
       ref |-> IF r.ok THEN LineAfter(r.text, RefLabel(step)) ELSE << >>]>>

\* WorkflowStepOutcome of a calendar step: its reference is the summary of the
\* event the orchestrator asked for.
EventOutcome(step, r, summary) ==
    [i \in 1..Len(StepOutcome(step, r)) |->
        [StepOutcome(step, r)[i] EXCEPT !.ref = IF r.ok THEN summary ELSE << >>]]

\* WorkflowStepOutcome of a step that is not attempted.
Skipped(step, why) ==
    <<[step |-> step, status |-> "skipped", text |-> <<"skipped:", why>>,
       ref |-> << >>]>>

\* Branch creation that failed with "already exists" counts as done.
AlreadyExists(r) == ~r.ok /\ Includes(r.text, <<"already", "exists">>)

BranchOutcome(r, branchName) ==
    IF AlreadyExists(r)
    THEN <<[step |-> "branch", status |-> "success", text |-> r.text,
            ref |-> branchName]>>
    ELSE StepOutcome("branch", r)

Succeeded(outs, step) ==
    \E i \in 1..Len(outs) : outs[i].step = step /\ outs[i].status = "success"

RefOf(outs, step) ==
    IF Succeeded(outs, step)
    THEN outs[CHOOSE i \in 1..Len(outs) : outs[i].step = step].ref
    ELSE << >>

\* Overall status: complete iff every attempted step succeeded, failed iff
\* none did, partial otherwise.
ComputeStatusAnySuccess(outs) ==
    IF \E i \in 1..Len(outs) : outs[i].status = "success"
    THEN "complete" ELSE "failed"

ComputeStatus(outs) ==
    LET attempted == {i \in 1..Len(outs) : outs[i].status # "skipped"}
        good      == {i \in 1..Len(outs) : outs[i].status = "success"}
    IN  IF good = {} THEN "failed"
        ELSE IF good = attempted THEN "complete"
        ELSE "partial"

\* The consolidated summary: one line per step, then the produced references.
RenderSummary(outs) ==
    <<"Status:", ComputeStatus(outs), NL>>
    \o Join([i \in 1..Len(outs) |->
               IF outs[i].status = "success" THEN <<"completed:", outs[i].step>>
               ELSE IF outs[i].status = "failed"
               THEN <<"failed:", outs[i].step>> \o outs[i].text
               ELSE <<outs[i].step>> \o outs[i].text], <<NL>>)
    \o <<NL, "Links:", NL>>
    \o Join([i \in 1..Len(outs) |-> outs[i].ref], <<NL>>)
    \o (IF ~Succeeded(outs, "research") /\ \E i \in 1..Len(outs) :
                                              outs[i].step = "research"
        THEN <<NL, "retry or refine research query">> ELSE << >>)

WorkflowResult(outs) ==
    [kind |-> "result", status |-> ComputeStatus(outs), outcomes |-> outs,
     text |-> RenderSummary(outs)]

\* Default branch of publish content, derived from the content id alone.
DeriveBranch(contentId) == <<"content/">> \o contentId

\* A branch name that takes the repository in as well.
BranchNameWithRepository(a) ==
    Default(a, "branch", DeriveBranch(a.contentId) \o <<"@">> \o a.repository)

BranchName(a) == Default(a, "branch", DeriveBranch(a.contentId))

\* What a publish invocation without a branch argument leaves behind once its
\* branch is created: the content id and the branch derived from it.
Derived(a) == [contentId |-> a.contentId, branch |-> BranchName(a)]

----------------------------------------------------------------------------
(* Inputs and vendor behaviours the model draws from *)

Topics == {<<"AI">>, <<"unit", NL, "testing">>}

Deadlines == {10, 20}

ContentIds == {<<"abc123">>, <<"p", "-", "7">>}

PlanArgs ==
    { [topic |-> t, contentType |-> <<"blog">>, deadline |-> d] :
        t \in Topics, d \in Deadlines } \cup
    { [topic |-> t, contentType |-> <<"blog">>, deadline |-> d,
       assignee |-> <<"qa@example.com">>] : t \in Topics, d \in Deadlines }

ResearchArgs ==
    { [topic |-> t] : t \in Topics } \cup
    { [topic |-> t, depth |-> d] :
        t \in Topics, d \in {"basic", "comprehensive"} }

Repositories == {<<"main-repo">>, <<"docs-repo">>}

PublishArgs ==
    { [contentId |-> c, repository |-> p] :
        c \in ContentIds, p \in Repositories } \cup
    { [contentId |-> c, repository |-> <<"main-repo">>,
       branch |-> <<"feature/x">>] : c \in ContentIds }

VendorOutcomes == {VOk, VErr(<<"Request", "failed">>)}

CreateRefOutcomes ==
    VendorOutcomes \cup {VErr(<<"Reference", "already", "exists">>)}

\* The commits the base branch may point at when it is looked up.
Shas == {"sha-1", "sha-2"}

\* git.getRef: a failure, or the ref with the sha of its commit.
GetRefOutcomes ==
    {VErr(<<"Request", "failed">>)}
    \cup {[ok |-> TRUE, message |-> << >>, sha |-> h] : h \in Shas}

NoResult == [kind |-> "none", status |-> "", outcomes |-> << >>, text |-> << >>]

ConnCall(step, op, arg) == [step |-> step, op |-> op, arg |-> arg]

----------------------------------------------------------------------------
(* Process start: the environment and the constructors (src/src/index.ts,   *)
(* lines 20-29)                                                             *)

\* Largest number of tool calls the dispatch shell serves at the same time.
MaxConcurrent == 2

\* Largest number of credentials the provider issues (refreshes and OAuth
\* completions) in one run.
MaxIssued == 2

Slots == 1..MaxConcurrent

\* process.env[name]: a variable that is not set reads as undefined.
Undefined == "undefined"

Getenv(e, name) == IF name \in DOMAIN e THEN e[name] ELSE Undefined

\* !value for a string or undefined.
Falsy(value) == value \in {Undefined, ""}

GitHubConfig == {"GITHUB_TOKEN", "GITHUB_OWNER", "GITHUB_REPO"}

NotionConfig == {"NOTION_TOKEN", "NOTION_DATABASE_ID"}

GoogleConfig ==
    {"GOOGLE_CLIENT_ID", "GOOGLE_CLIENT_SECRET", "GOOGLE_REDIRECT_URI"}

RequiredConfig == GitHubConfig \cup NotionConfig \cup GoogleConfig

\* A constructor that puts the check off to the first use.
ConstructorLazy(e, names, message) == [ok |-> TRUE, message |-> << >>]

\* The constructors of GitHubService, NotionService and GoogleCalendarService:
\* `if (!a || !b || !c) throw new Error('... configuration missing ...')`.
Constructor(e, names, message) ==
    IF \E n \in names : Falsy(Getenv(e, n))
    THEN [ok |-> FALSE, message |-> message]
    ELSE [ok |-> TRUE, message |-> << >>]

GitHubServiceConstructor(e) ==
    Constructor(e, GitHubConfig, <<"GitHub configuration missing.">>)

NotionServiceConstructor(e) ==
    Constructor(e, NotionConfig, <<"Notion configuration missing.">>)

GoogleCalendarServiceConstructor(e) ==
    Constructor(e, GoogleConfig, <<"Google Calendar configuration missing.">>)

\* WebSearchService's constructor: this.enabled = WEB_SEARCH_ENABLED === 'true'.
WebSearchServiceConstructor(e) == Getenv(e, "WEB_SEARCH_ENABLED") = "true"

\* The module body of index.ts constructs the services in this order; the
\* first constructor that throws ends the process before the server connects.
ServicesConstructed(e) ==
    /\ GitHubServiceConstructor(e).ok
    /\ NotionServiceConstructor(e).ok
    /\ GoogleCalendarServiceConstructor(e).ok

\* An environment with every required value set, and the research flag as given.
CompleteEnv(flag) ==
    [n \in RequiredConfig \cup {"WEB_SEARCH_ENABLED"} |->
        IF n = "WEB_SEARCH_ENABLED" THEN flag ELSE "set"]

\* The environments a process is started in: complete, or with one required
\* value not set or empty; the research flag is "true", "false" or not set.
Environments ==
    LET flagged == {CompleteEnv(f) : f \in {"true", "false"}}
                   \cup {[n \in RequiredConfig |-> "set"]}
    IN  flagged
        \cup {[n \in DOMAIN e \ {m} |-> e[n]] : e \in flagged, m \in RequiredConfig}
        \cup {[e EXCEPT ![m] = ""] : e \in flagged, m \in RequiredConfig}

\* Which credentials the token file and the OAuth2 client hold, counted by the
\* order the provider issued them in; 0 is what the file held at start.
NoneIssued == [file |-> 0, memory |-> 0, latest |-> 0]

\* A handler call that is not running a connector operation.
NoOutcome == [ok |-> FALSE, kind |-> "none", text |-> << >>]

IdleInvocation ==
    [st |-> "idle", tool |-> "", op |-> "", bag |-> << >>, a |-> << >>,
     creds0 |-> NoCredentials, got |-> << >>, inflight |-> << >>, log |-> << >>,
     res |-> NoOutcome, alone |-> TRUE]

----------------------------------------------------------------------------
(* The state machine *)

Init ==
    /\ enabled \in BOOLEAN
    /\ env = CompleteEnv(IF enabled THEN "true" ELSE "false")
    /\ proc = "running"
    /\ tokenFile \in TokenFiles
    /\ credentials = loadTokens(tokenFile)
    /\ gen = NoneIssued
    /\ inv = [s \in Slots |-> IdleInvocation]
    /\ pc = "idle"
    /\ tool = ""
    /\ args = << >>
    /\ connCalls = << >>
    /\ vendorCalls = << >>
    /\ research = NoResearch
    /\ outcomes = << >>
    /\ result = NoResult
    /\ created = {}

\* CallToolRequestSchema handler: a workflow tool is called with valid arguments
\* and runs up to its first await.
Invoke ==
    /\ pc = "idle"
    /\ \E t \in {"workflow_create_content_plan", "workflow_research_topic",
                 "workflow_publish_content"} :
         \E a \in (CASE t = "workflow_create_content_plan" -> PlanArgs
                     [] t = "workflow_research_topic" -> ResearchArgs
                     [] OTHER -> PublishArgs) :
            /\ tool' = t
            /\ args' = a
            /\ pc' = IF t = "workflow_publish_content" THEN "fetch"
                     ELSE "research_start"
    /\ UNCHANGED <<connVars, created, enabled, credentials, connCalls, vendorCalls, research,
                   outcomes, result>>

\* The arguments the orchestrator hands to webSearchService.researchTopic:
\* create content plan researches in basic mode, research topic passes depth on.
ResearchCallArgs ==
    IF tool = "workflow_create_content_plan"
    THEN [topic |-> args.topic, depth |-> "basic"]
    ELSE [f \in DOMAIN args \cap {"topic", "depth"} |-> args[f]]

\* Step 1 of create content plan and of research topic: researchTopic is
\* called, parses its arguments and lays out its search queries.
ResearchStart ==
    /\ pc = "research_start"
    /\ research' = [topic |-> ResearchCallArgs.topic,
                    depth |-> Default(ResearchCallArgs, "depth", "comprehensive"),
                    queries |-> searchQueries(ResearchCallArgs),
                    searched |-> << >>, results |-> << >>, findings |-> << >>]
    /\ connCalls' = Append(connCalls,
                           ConnCall("research", "researchTopic", ResearchCallArgs))
    /\ pc' = "research"
    /\ UNCHANGED <<connVars, created, enabled, credentials, tool, args, vendorCalls, outcomes, result>>

\* One iteration of researchTopic's loop: await this.search({query, maxResults: 3}).
\* After the last query the summary is built, researchTopic returns and the
\* orchestrator records the research step.
ResearchSearch ==
    /\ pc = "research"
    /\ Len(research.results) < Len(research.queries)
    /\ \E v \in (IF enabled THEN ProviderOutcomes
                 ELSE {[ok |-> TRUE, abstract |-> FALSE, related |-> 0]}) :
         LET query == research.queries[Len(research.results) + 1]
             sa    == [query |-> query, maxResults |-> 3]
             r     == search(enabled, sa, v)
             res   == Append(research.results, [query |-> query, results |-> r.text])
             last  == Len(res) = Len(research.queries)
             text  == ResearchSummary(research.topic, research.depth,
                                      research.queries, res)
         IN  /\ research' = [research EXCEPT
                               !.searched = Append(@, sa),
                               !.results = res,
                               !.findings = IF last THEN KeyFindings(res) ELSE @]
             /\ vendorCalls' = vendorCalls \o r.vcalls
             /\ outcomes' = IF last
                            THEN outcomes \o StepOutcome("research", Returned(text, << >>))
                            ELSE outcomes
             /\ pc' = IF last THEN "page" ELSE "research"
    /\ UNCHANGED <<connVars, created, enabled, credentials, tool, args, connCalls, result>>

PageArgs ==
    IF tool = "workflow_create_content_plan"
    THEN [title |-> <<"Content Plan:">> \o args.topic,
          content |-> IF Succeeded(outcomes, "research")
                      THEN outcomes[1].text ELSE << >>,
          tags |-> <<args.contentType, <<"automated">>>>]
    ELSE [title |-> <<"Research:">> \o args.topic,
          content |-> IF Succeeded(outcomes, "research")
                      THEN outcomes[1].text ELSE << >>,
          tags |-> <<<<"research">>, <<"automated">>>>]

\* Step 2 of create content plan, step 3 (first half) of research topic:
\* the page is created; a failure is recorded and the operation goes on.
CreatePageStep ==
    /\ pc = "page"
    /\ \E v \in VendorOutcomes :
         LET r == createPage(PageArgs, v)
         IN  /\ connCalls' = Append(connCalls, ConnCall("page", "createPage", PageArgs))
             /\ vendorCalls' = vendorCalls \o r.vcalls
             /\ outcomes' = outcomes \o StepOutcome("page", r)
    /\ pc' = "issue"
    /\ UNCHANGED <<connVars, created, enabled, credentials, tool, args, research, result>>

IssueArgs ==
    [title |-> (IF tool = "workflow_create_content_plan"
                THEN <<"Content Development:">> ELSE <<"Research:">>) \o args.topic,
     body |-> <<"Page:">> \o RefOf(outcomes, "page")
              \o <<"Assignee:">> \o Default(args, "assignee", <<"unassigned">>)]

\* Step 3 of create content plan, step 3 (second half) of research topic: the
\* tracking issue. It is the last step of research topic, which then assembles
\* its WorkflowResult.
CreateIssueStep ==
    /\ pc = "issue"
    /\ \E v \in VendorOutcomes :
         LET r    == createIssue(IssueArgs, v)
             outs == outcomes \o StepOutcome("issue", r)
         IN  /\ connCalls' = Append(connCalls, ConnCall("issue", "createIssue", IssueArgs))
             /\ vendorCalls' = vendorCalls \o r.vcalls
             /\ outcomes' = outs
             /\ IF tool = "workflow_create_content_plan"
                THEN pc' = "milestone" /\ result' = result
                ELSE pc' = "done" /\ result' = WorkflowResult(outs)
    /\ UNCHANGED <<connVars, created, enabled, credentials, tool, args, research>>

MilestoneArgs ==
    [title |-> <<"Content Milestone:">> \o args.topic,
     description |-> <<"Milestone for">> \o args.topic,
     startTime |-> args.deadline - MilestoneOffset,
     endTime |-> args.deadline - MilestoneOffset + EventLength,
     attendees |-> IF "assignee" \in DOMAIN args THEN <<args.assignee>> ELSE << >>]

DeadlineArgs ==
    [title |-> <<"Content Deadline:">> \o args.topic,
     description |-> <<"Deadline for">> \o args.topic,
     startTime |-> args.deadline,
     endTime |-> args.deadline + EventLength,
     attendees |-> IF "assignee" \in DOMAIN args THEN <<args.assignee>> ELSE << >>]

\* Step 4 of create content plan, first event: the milestone reminder.
MilestoneStep ==
    /\ pc = "milestone"
    /\ \E vRefresh \in VendorOutcomes, vInsert \in VendorOutcomes :
         LET r == createEvent(MilestoneArgs, credentials, vRefresh, vInsert)
         IN  /\ connCalls' = Append(connCalls,
                                    ConnCall("milestone", "createEvent", MilestoneArgs))
             /\ vendorCalls' = vendorCalls \o r.vcalls
             /\ credentials' = r.creds
             /\ outcomes' = outcomes
                            \o EventOutcome("milestone", r, MilestoneArgs.title)
    /\ pc' = "deadline"
    /\ UNCHANGED <<connVars, created, enabled, tool, args, research, result>>

\* Step 4 of create content plan, second event: the deadline itself; then
\* step 5, the WorkflowResult.
DeadlineStep ==
    /\ pc = "deadline"
    /\ \E vRefresh \in VendorOutcomes, vInsert \in VendorOutcomes :
         LET r    == createEvent(DeadlineArgs, credentials, vRefresh, vInsert)
             outs == outcomes \o EventOutcome("deadline", r, DeadlineArgs.title)
         IN  /\ connCalls' = Append(connCalls,
                                    ConnCall("deadline", "createEvent", DeadlineArgs))
             /\ vendorCalls' = vendorCalls \o r.vcalls
             /\ credentials' = r.creds
             /\ outcomes' = outs
             /\ result' = WorkflowResult(outs)
    /\ pc' = "done"
    /\ UNCHANGED <<connVars, created, enabled, tool, args, research>>

\* Step 1 of publish content: fetch the page. A failure is fatal: the later
\* steps are recorded as skipped and the result is assembled at once.
FetchStep ==
    /\ pc = "fetch"
    /\ \E vRetrieve \in VendorOutcomes, vList \in VendorOutcomes :
         LET ga   == [pageId |-> args.contentId]
             r    == getPage(ga, vRetrieve, vList)
             outs == outcomes \o StepOutcome("fetch", r)
                     \o (IF r.ok THEN << >>
                         ELSE Skipped("branch", "page fetch failed")
                              \o Skipped("pr", "page fetch failed")
                              \o Skipped("update", "page fetch failed"))
         IN  /\ connCalls' = Append(connCalls, ConnCall("fetch", "getPage", ga))
             /\ vendorCalls' = vendorCalls \o r.vcalls
             /\ outcomes' = outs
             /\ IF r.ok
                THEN pc' = "branch" /\ result' = result
                ELSE pc' = "done" /\ result' = WorkflowResult(outs)
    /\ UNCHANGED <<connVars, created, enabled, credentials, tool, args, research>>

\* Step 2 of publish content: create the branch from the default base branch.
\* "already exists" counts as success; any other failure skips the pull request.
BranchStep ==
    /\ pc = "branch"
    /\ \E vGet \in GetRefOutcomes, vCreate \in CreateRefOutcomes :
         LET ba   == [branchName |-> BranchName(args)]
             r    == createBranch(ba, vGet, vCreate)
             out  == BranchOutcome(r, BranchName(args))
             good == Succeeded(out, "branch")
         IN  /\ connCalls' = Append(connCalls, ConnCall("branch", "createBranch", ba))
             /\ vendorCalls' = vendorCalls \o r.vcalls
             /\ outcomes' = outcomes \o out
                            \o (IF good THEN << >>
                                ELSE Skipped("pr", "branch creation failed"))
             /\ pc' = IF good THEN "pr" ELSE "update"
             /\ created' = IF r.ok /\ "branch" \notin DOMAIN args
                            THEN created \cup {Derived(args)}
                            ELSE created
    /\ UNCHANGED <<connVars, enabled, credentials, tool, args, research, result>>

PullRequestArgs ==
    [title |-> <<"Publish">> \o args.contentId,
     body |-> outcomes[1].text,
     head |-> BranchName(args)]

\* Step 3 of publish content: open the pull request from the branch.
PullRequestStep ==
    /\ pc = "pr"
    /\ \E v \in VendorOutcomes :
         LET r == createPullRequest(PullRequestArgs, v)
         IN  /\ connCalls' = Append(connCalls,
                                    ConnCall("pr", "createPullRequest", PullRequestArgs))
             /\ vendorCalls' = vendorCalls \o r.vcalls
             /\ outcomes' = outcomes \o StepOutcome("pr", r)
    /\ pc' = "update"
    /\ UNCHANGED <<connVars, created, enabled, credentials, tool, args, research, result>>

\* The status written to the page: "Review" once the pull request exists.
UpdateArgs ==
    [pageId |-> args.contentId,
     status |-> IF Succeeded(outcomes, "pr") THEN <<"Review">> ELSE <<"Draft">>]

\* Step 4 of publish content with a rollback: when the status update fails,
\* the branch created in step 2 is deleted again.
UpdateStepRollback ==
    /\ pc = "update"
    /\ \E v \in VendorOutcomes :
         LET r    == updatePage(UpdateArgs, v, VOk)
             outs == outcomes \o StepOutcome("update", r)
             undo == IF r.ok THEN << >>
                     ELSE <<VCall("git.deleteRef", [ref |-> BranchName(args)], VOk)>>
         IN  /\ connCalls' = Append(connCalls,
                                    ConnCall("update", "updatePage", UpdateArgs))
             /\ vendorCalls' = vendorCalls \o r.vcalls \o undo
             /\ outcomes' = outs
             /\ result' = WorkflowResult(outs)
    /\ pc' = "done"
    /\ UNCHANGED <<connVars, created, enabled, credentials, tool, args, research>>

\* Step 4 of publish content: update the page status; then step 5, the
\* WorkflowResult. Nothing created earlier is reverted when this fails.
UpdateStep ==
    /\ pc = "update"
    /\ \E v \in VendorOutcomes :
         LET r    == updatePage(UpdateArgs, v, VOk)
             outs == outcomes \o StepOutcome("update", r)
         IN  /\ connCalls' = Append(connCalls,
                                    ConnCall("update", "updatePage", UpdateArgs))
             /\ vendorCalls' = vendorCalls \o r.vcalls
             /\ outcomes' = outs
             /\ result' = WorkflowResult(outs)
    /\ pc' = "done"
    /\ UNCHANGED <<connVars, created, enabled, credentials, tool, args, research>>

\* The handler's promise settles: the response goes to the caller and the
\* invocation's locals are gone. Only the calendar credentials live on.
Respond ==
    /\ pc = "done"
    /\ pc' = "idle"
    /\ tool' = ""
    /\ args' = << >>
    /\ connCalls' = << >>
    /\ vendorCalls' = << >>
    /\ research' = NoResearch
    /\ outcomes' = << >>
    /\ result' = NoResult
    /\ UNCHANGED <<connVars, created, enabled, credentials>>

\* Time passes: the stored expiry_date falls into the past. Only
\* ensureAuthenticated reads the clock, so the model lets it cross expiry_date
\* between invocations and right before a calendar step.
Expire ==
    /\ pc \in {"idle", "milestone", "deadline"}
    /\ credentials.access_token
    /\ ~credentials.expired
    /\ credentials' = [credentials EXCEPT !.expired = TRUE]
    /\ UNCHANGED <<connVars, created, enabled, pc, tool, args, connCalls, vendorCalls, research,
                   outcomes, result>>

Next ==
    \/ Invoke
    \/ ResearchStart
    \/ ResearchSearch
    \/ CreatePageStep
    \/ CreateIssueStep
    \/ MilestoneStep
    \/ DeadlineStep
    \/ FetchStep
    \/ BranchStep
    \/ PullRequestStep
    \/ UpdateStep
    \/ Respond
    \/ Expire

Spec == Init /\ [][Next]_vars

----------------------------------------------------------------------------
(* Argument bags and their validation: `schema.parse(args)`, the first      *)
(* statement of every connector operation                                   *)

\* A value of a loosely typed argument bag: its JavaScript type and content.
\* A string is a token text (str), or for a timestamp the instant it names
\* (num); an array of strings is a sequence of texts (items).
Raw(type, str, num, items) ==
    [type |-> type, str |-> str, num |-> num, items |-> items]

Str(t) == Raw("string", t, 0, << >>)

Time(n) == Raw("string", <<"ISO", "date">>, n, << >>)

Num(n) == Raw("number", << >>, n, << >>)

Arr(items) == Raw("array", << >>, 0, items)

\* request.params.arguments: an object with some fields, or undefined.
Bag(fields) == [given |-> TRUE, fields |-> fields]

NoArguments == [given |-> FALSE, fields |-> << >>]

\* One field of a z.object({...}): kind is "text" (z.string()), "atom" (a
\* z.enum read as one word), "time" (a z.string() holding a timestamp), "number"
\* (z.number()) or "array" (z.array(z.string())); enum is the set of texts a
\* z.enum allows ({} when any text will do); url stands for .url().
Field(name, kind, required) ==
    [name |-> name, kind |-> kind, required |-> required, enum |-> {},
     url |-> FALSE]

Enum(name, kind, values) ==
    [name |-> name, kind |-> kind, required |-> FALSE, enum |-> values,
     url |-> FALSE]

Url(name) ==
    [name |-> name, kind |-> "text", required |-> TRUE, enum |-> {}, url |-> TRUE]

JsType(kind) == IF kind \in {"number", "array"} THEN kind ELSE "string"

\* z.string().url(): the text parses as a URL.
IsUrl(t) == Len(t) > 0 /\ t[1] \in {"https://", "http://"}

\* The issue zod raises for one field of the schema, or none.
FieldIssue(f, fields) ==
    IF f.name \notin DOMAIN fields
    THEN IF f.required THEN <<f.name, "Required">> ELSE << >>
    ELSE IF fields[f.name].type # JsType(f.kind)
    THEN <<f.name, "Expected", JsType(f.kind)>>
    ELSE IF f.enum # {} /\ fields[f.name].str \notin f.enum
    THEN <<f.name, "Invalid enum value">>
    ELSE IF f.url /\ ~IsUrl(fields[f.name].str)
    THEN <<f.name, "Invalid url">>
    ELSE << >>

\* The typed value of a field that passed.
FieldValue(f, raw) ==
    CASE f.kind = "number" -> raw.num
      [] f.kind = "time"   -> raw.num
      [] f.kind = "array"  -> raw.items
      [] f.kind = "atom"   -> raw.str[1]
      [] OTHER             -> raw.str

\* schema.parse(bag): the typed arguments (unknown keys dropped, defaults left
\* to the operation), or a ZodError listing the issues of every field.
Parse(schema, bag) ==
    LET fields == IF bag.given THEN bag.fields ELSE << >>
        issues == IF bag.given
                  THEN Join([i \in 1..Len(schema) |-> FieldIssue(schema[i], fields)],
                            << >>)
                  ELSE <<"Required">>
        present == {i \in 1..Len(schema) : schema[i].name \in DOMAIN fields}
        names == {schema[i].name : i \in present}
        of(n) == CHOOSE i \in present : schema[i].name = n
    IN  IF issues # << >>
        THEN [ok |-> FALSE, issues |-> <<"ZodError:">> \o issues, value |-> << >>]
        ELSE [ok |-> TRUE, issues |-> << >>,
              value |-> [n \in names |-> FieldValue(schema[of(n)], fields[n])]]

----------------------------------------------------------------------------
(* The connector operations the composite operations do not use *)

\* GitHubService.listIssues: one issues.listForRepo call.
listIssues(a, v) ==
    LET calls == <<VCall("issues.listForRepo",
                         [state |-> Default(a, "state", "open"),
                          per_page |-> Default(a, "limit", 10)], v)>>
    IN  IF v.ok
        THEN Returned(<<"Found", "1", "issues:", NL, NL, "#1:", "Stored", "issue",
                        "(open)", NL, "Labels:", "content", NL, "URL:">>
                      \o IssueUrl, calls)
        ELSE Thrown(WrapError("Failed to list GitHub issues:", v), calls)

\* GitHubService.getRepositoryInfo: one repos.get call, no arguments.
getRepositoryInfo(v) ==
    LET calls == <<VCall("repos.get", << >>, v)>>
    IN  IF v.ok
        THEN Returned(<<"Repository:", "o/r", NL, NL, "Description:",
                        "No description", NL, NL, "URL:", "https://github.com/o/r">>,
                      calls)
        ELSE Thrown(WrapError("Failed to get repository info:", v), calls)

\* NotionService.searchPages: one search call.
searchPages(a, v) ==
    LET calls == <<VCall("search", [query |-> a.query], v)>>
    IN  IF v.ok
        THEN Returned(<<"Found", "1", "pages matching">> \o a.query
                      \o <<":", NL, NL, "**Stored title**", NL, "Status:", "Draft",
                           NL, "Tags:", "None", NL, "URL:">> \o NotionUrl(NewPageId),
                      calls)
        ELSE Thrown(WrapError("Failed to search Notion pages:", v), calls)

\* NotionService.listDatabasePages: one databases.query call.
listDatabasePages(a, v) ==
    LET calls == <<VCall("databases.query",
                         [status |-> Default(a, "status", << >>),
                          page_size |-> Default(a, "limit", 10)], v)>>
    IN  IF v.ok
        THEN Returned(<<"Database pages">>
                      \o (IF Default(a, "status", << >>) # << >>
                          THEN <<"with status">> \o a.status ELSE << >>)
                      \o <<":", NL, NL, "**Stored title**", NL, "Status:", "Draft",
                           NL, "URL:">> \o NotionUrl(NewPageId), calls)
        ELSE Thrown(WrapError("Failed to list database pages:", v), calls)

\* What a calendar operation hands back: as Returned and Thrown, with the
\* credentials the OAuth2 client holds afterwards.
CalReturned(text, vcalls, creds) ==
    [ok |-> TRUE, text |-> text, vcalls |-> vcalls, creds |-> creds]

CalThrown(message, vcalls, creds) ==
    [ok |-> FALSE, text |-> message, vcalls |-> vcalls, creds |-> creds]

MockEventsText ==
    <<"**Mock Calendar Events**", NL, NL, "**Content Review Meeting**", NL,
      "Attendees:", "team@example.com", NL, NL, "**Publishing Deadline**", NL,
      "Attendees:", "None", NL, NL, "*Note: This is a mock response.",
      "In production, complete OAuth authentication",
      "to list real calendar events.*">>

\* listEvents: an error whose message has the word 'authentication' in it is
\* answered with mock events; any other error is wrapped and thrown.
listEvents(a, creds, vRefresh, vList) ==
    LET auth == ensureAuthenticated(creds, vRefresh)
        lst  == VCall("events.list",
                      [maxResults |-> Default(a, "maxResults", 10)], vList)
        calls == IF auth.ok THEN auth.vcalls \o <<lst>> ELSE auth.vcalls
        error == IF auth.ok THEN vList.message ELSE auth.message
    IN  IF auth.ok /\ vList.ok
        THEN CalReturned(<<"Upcoming calendar events:", NL, NL, "**Stored event**",
                           NL, "Attendees:", "None", NL, "URL:",
                           "https://calendar.google.com/event?eid=1">>,
                         calls, auth.creds)
        ELSE IF Includes(error, <<"authentication">>)
        THEN CalReturned(MockEventsText, calls, auth.creds)
        ELSE CalThrown(<<"Failed to list calendar events:">> \o error, calls,
                       auth.creds)

\* updateEvent: every error of the try block is wrapped and thrown.
updateEvent(a, creds, vRefresh, vUpdate) ==
    LET auth == ensureAuthenticated(creds, vRefresh)
        upd  == VCall("events.update", [eventId |-> a.eventId], vUpdate)
        calls == IF auth.ok THEN auth.vcalls \o <<upd>> ELSE auth.vcalls
        error == IF auth.ok THEN vUpdate.message ELSE auth.message
    IN  IF auth.ok /\ vUpdate.ok
        THEN CalReturned(<<"Calendar event updated successfully!", NL, NL,
                           "**Event**:", "Stored", "event", NL, NL, "**Event URL**:",
                           "https://calendar.google.com/event?eid=1">>,
                         calls, auth.creds)
        ELSE CalThrown(<<"Failed to update calendar event:">> \o error, calls,
                       auth.creds)

\* deleteEvent: as updateEvent.
deleteEvent(a, creds, vRefresh, vDelete) ==
    LET auth == ensureAuthenticated(creds, vRefresh)
        del  == VCall("events.delete", [eventId |-> a.eventId], vDelete)
        calls == IF auth.ok THEN auth.vcalls \o <<del>> ELSE auth.vcalls
        error == IF auth.ok THEN vDelete.message ELSE auth.message
    IN  IF auth.ok /\ vDelete.ok
        THEN CalReturned(<<"Calendar event deleted successfully!", NL, NL,
                           "**Event ID**:">> \o a.eventId, calls, auth.creds)
        ELSE CalThrown(<<"Failed to delete calendar event:">> \o error, calls,
                       auth.creds)

\* extractContent: disabled, mock text and no request; live, one GET of the
\* url, and a failure is answered with a text that reports it.
extractContent(isEnabled, a, v) ==
    LET call == VCall("axios.get", [url |-> a.url], v)
    IN  IF ~isEnabled
        THEN Returned(<<"**Mock Content Extraction from:">> \o a.url
                      \o <<"**", NL, NL, "**Title**:", "Sample Article Title", NL, NL,
                           "*Note: This is a mock response.",
                           "Enable WEB_SEARCH_ENABLED=true to perform real content",
                           "extraction.*">>, << >>)
        ELSE IF ~v.ok
        THEN Returned(<<"**Content Extraction Failed**", NL, NL, "**URL**:">> \o a.url
                      \o <<NL, NL, "**Error**:">> \o v.message, <<call>>)
        ELSE Returned(<<"**Content Extraction from:">> \o a.url
                      \o <<"**", NL, NL, "**Title**:", "Page title", NL, NL,
                           "**Content**:", NL, "Page", "text", NL, NL,
                           "**Word Count**:", "2", "words">>, <<call>>)

\* The provider's answer the i-th search of a connector operation gets.
Nth(outs, i, otherwise) == IF i <= Len(outs) THEN outs[i] ELSE otherwise

EmptyAnswer == [ok |-> TRUE, abstract |-> FALSE, related |-> 0]

\* researchTopic as a whole: the searches of its loop, in order, and the
\* summary built from their texts. Its catch is never reached: search does not
\* throw for these arguments.
researchTopic(isEnabled, a, outs) ==
    LET queries == searchQueries(a)
        found == [i \in 1..Len(queries) |->
                    search(isEnabled, [query |-> queries[i], maxResults |-> 3],
                           Nth(outs, i, EmptyAnswer))]
        results == [i \in 1..Len(queries) |->
                      [query |-> queries[i], results |-> found[i].text]]
    IN  Returned(ResearchSummary(a.topic, Default(a, "depth", "comprehensive"),
                                 queries, results),
                 Join([i \in 1..Len(queries) |-> found[i].vcalls], << >>))

\* Math.floor(Math.random() * n) + base for the two ends of Math.random().
RandomDraws == {0, 1}

Score(draw, n, base) == base + draw * (n - 1)

\* validateContent: one search, and scores drawn at random.
validateContent(isEnabled, a, v, rnd) ==
    LET found == search(isEnabled,
                        [query |-> a.topic \o <<"authoritative sources experts">>,
                         maxResults |-> 3], v)
        accuracy == Score(rnd[1], 30, 70)
        completeness == Score(rnd[2], 20, 80)
        relevance == Score(rnd[3], 15, 85)
    IN  Returned(<<"**Content Validation Results**", NL, NL, "**Topic**:">> \o a.topic
                 \o <<NL, NL, "Accuracy:", ToString(accuracy), "%", NL,
                      "Completeness:", ToString(completeness), "%", NL,
                      "Relevance:", ToString(relevance), "%", NL, NL,
                      "**Authoritative Sources**:", NL>> \o found.text
                 \o <<NL, NL, "**Recommendations**:", NL,
                      IF accuracy < 90
                      THEN "Consider fact-checking with additional sources"
                      ELSE "Content appears accurate", NL,
                      IF completeness < 90
                      THEN "Add more details to improve completeness"
                      ELSE "Content is comprehensive", NL,
                      IF relevance < 90
                      THEN "Ensure content directly addresses the topic"
                      ELSE "Content is highly relevant">>, found.vcalls)

----------------------------------------------------------------------------
(* One connector operation from call to return, await by await *)

GitHubOps ==
    {"createIssue", "createBranch", "createPullRequest", "listIssues",
     "getRepositoryInfo"}

NotionOps ==
    {"createPage", "searchPages", "updatePage", "getPage", "listDatabasePages"}

CalendarOps == {"createEvent", "listEvents", "updateEvent", "deleteEvent"}

WebSearchOps == {"search", "extractContent", "researchTopic", "validateContent"}

ConnectorOps == GitHubOps \cup NotionOps \cup CalendarOps \cup WebSearchOps

\* The switch of the CallToolRequestSchema handler, connector tools only.
Dispatch(name) ==
    CASE name = "github_create_issue"        -> "createIssue"
      [] name = "github_create_branch"       -> "createBranch"
      [] name = "github_create_pull_request" -> "createPullRequest"
      [] name = "notion_create_page"         -> "createPage"
      [] name = "notion_search_pages"        -> "searchPages"
      [] name = "notion_update_page"         -> "updatePage"
      [] name = "calendar_create_event"      -> "createEvent"
      [] name = "calendar_list_events"       -> "listEvents"
      [] name = "web_search"                 -> "search"
      [] name = "web_extract_content"        -> "extractContent"
      [] OTHER                               -> "unknown"

ConnectorTools ==
    {"github_create_issue", "github_create_branch", "github_create_pull_request",
     "notion_create_page", "notion_search_pages", "notion_update_page",
     "calendar_create_event", "calendar_list_events", "web_search",
     "web_extract_content"}

\* The z.object({...}) each operation parses its arguments with.
Schema(op) ==
    CASE op = "createIssue" ->
           <<Field("title", "text", TRUE), Field("body", "text", TRUE),
             Field("labels", "array", FALSE)>>
      [] op = "createBranch" ->
           <<Field("branchName", "text", TRUE), Field("baseBranch", "text", FALSE)>>
      [] op = "createPullRequest" ->
           <<Field("title", "text", TRUE), Field("body", "text", TRUE),
             Field("head", "text", TRUE), Field("base", "text", FALSE)>>
      [] op = "listIssues" ->
           <<Enum("state", "atom", {<<"open">>, <<"closed">>, <<"all">>}),
             Field("labels", "text", FALSE), Field("limit", "number", FALSE)>>
      [] op = "createPage" ->
           <<Field("title", "text", TRUE), Field("content", "text", TRUE),
             Field("tags", "array", FALSE)>>
      [] op = "searchPages" ->
           <<Field("query", "text", TRUE), Field("filter", "text", FALSE)>>
      [] op = "updatePage" ->
           <<Field("pageId", "text", TRUE), Field("title", "text", FALSE),
             Field("content", "text", FALSE),
             Enum("status", "text", {<<"Draft">>, <<"Review">>, <<"Published">>})>>
      [] op = "getPage" -> <<Field("pageId", "text", TRUE)>>
      [] op = "listDatabasePages" ->
           <<Field("status", "text", FALSE), Field("limit", "number", FALSE)>>
      [] op = "createEvent" ->
           <<Field("title", "text", TRUE), Field("description", "text", FALSE),
             Field("startTime", "time", TRUE), Field("endTime", "time", TRUE),
             Field("attendees", "array", FALSE)>>
      [] op = "listEvents" ->
           <<Field("timeMin", "time", FALSE), Field("timeMax", "time", FALSE),
             Field("maxResults", "number", FALSE)>>
      [] op = "updateEvent" ->
           <<Field("eventId", "text", TRUE), Field("title", "text", FALSE),
             Field("description", "text", FALSE), Field("startTime", "time", FALSE),
             Field("endTime", "time", FALSE)>>
      [] op = "deleteEvent" -> <<Field("eventId", "text", TRUE)>>
      [] op = "search" ->
           <<Field("query", "text", TRUE), Field("maxResults", "number", FALSE)>>
      [] op = "extractContent" -> <<Url("url")>>
      [] op = "researchTopic" ->
           <<Field("topic", "text", TRUE),
             Enum("depth", "atom", {<<"basic">>, <<"comprehensive">>})>>
      [] op = "validateContent" ->
           <<Field("content", "text", TRUE), Field("topic", "text", TRUE)>>
      [] OTHER -> << >>

\* `args: any = {}`: the operations that read a missing bag as an empty one.
DefaultsToEmptyBag == {"createEvent", "listEvents", "listIssues", "listDatabasePages"}

\* The arguments an operation works with, or the ZodError it throws first.
\* getRepositoryInfo takes no arguments and parses nothing.
ParseArguments(op, bag) ==
    IF op = "getRepositoryInfo"
    THEN [ok |-> TRUE, issues |-> << >>, value |-> << >>]
    ELSE Parse(Schema(op),
               IF ~bag.given /\ op \in DefaultsToEmptyBag THEN Bag(<< >>) ELSE bag)

\* A refresh call is made when the client holds an expired access token and a
\* refresh token.
NeedsRefresh(creds) ==
    creds.access_token /\ creds.expired /\ creds.refresh_token

\* The operation op, run on the answers `outs` its vendor calls got so far, in
\* the order it made them (an answer not yet in is read as a success).
Run(op, a, creds, isEnabled, rnd, outs) ==
    LET V(i) == Nth(outs, i, VOk)
        R == IF NeedsRefresh(creds) THEN V(1) ELSE VOk
        C == IF NeedsRefresh(creds) THEN V(2) ELSE V(1)
    IN  CASE op = "createIssue"       -> createIssue(a, V(1))
          [] op = "createBranch"      -> createBranch(a, V(1), V(2))
          [] op = "createPullRequest" -> createPullRequest(a, V(1))
          [] op = "listIssues"        -> listIssues(a, V(1))
          [] op = "getRepositoryInfo" -> getRepositoryInfo(V(1))
          [] op = "createPage"        -> createPage(a, V(1))
          [] op = "searchPages"       -> searchPages(a, V(1))
          [] op = "updatePage"        -> updatePage(a, V(1), V(2))
          [] op = "getPage"           -> getPage(a, V(1), V(2))
          [] op = "listDatabasePages" -> listDatabasePages(a, V(1))
          [] op = "createEvent"       -> createEvent(a, creds, R, C)
          [] op = "listEvents"        -> listEvents(a, creds, R, C)
          [] op = "updateEvent"       -> updateEvent(a, creds, R, C)
          [] op = "deleteEvent"       -> deleteEvent(a, creds, R, C)
          [] op = "search"            -> search(isEnabled, a, Nth(outs, 1, EmptyAnswer))
          [] op = "extractContent"    -> extractContent(isEnabled, a, V(1))
          [] op = "researchTopic"     -> researchTopic(isEnabled, a, outs)
          [] op = "validateContent"   ->
               validateContent(isEnabled, a, Nth(outs, 1, EmptyAnswer), rnd)

\* Argument bags that match the schemas.
ValidBags(op) ==
    CASE op = "createIssue" ->
           {Bag([title |-> Str(<<"Draft", "post">>), body |-> Str(<<"Body">>)]),
            Bag([title |-> Str(<<"Draft", "post">>), body |-> Str(<<"Body">>),
                 labels |-> Arr(<<<<"blog">>>>)])}
      [] op = "createBranch" ->
           {Bag([branchName |-> Str(<<"feature/x">>)]),
            Bag([branchName |-> Str(<<"feature/x">>),
                 baseBranch |-> Str(<<"develop">>)])}
      [] op = "createPullRequest" ->
           {Bag([title |-> Str(<<"Publish">>), body |-> Str(<<"Body">>),
                 head |-> Str(<<"feature/x">>)])}
      [] op = "listIssues" ->
           {NoArguments, Bag([state |-> Str(<<"closed">>), limit |-> Num(3)])}
      [] op = "getRepositoryInfo" -> {NoArguments}
      [] op = "createPage" ->
           {Bag([title |-> Str(<<"Plan">>), content |-> Str(<<"Text">>)]),
            Bag([title |-> Str(<<"Plan">>), content |-> Str(<<"Text">>),
                 tags |-> Arr(<<<<"blog">>, <<"automated">>>>)])}
      [] op = "searchPages" -> {Bag([query |-> Str(<<"plan">>)])}
      [] op = "updatePage" ->
           {Bag([pageId |-> Str(<<"p", "-", "7">>)]),
            Bag([pageId |-> Str(<<"p", "-", "7">>), status |-> Str(<<"Review">>)]),
            Bag([pageId |-> Str(<<"p", "-", "7">>), content |-> Str(<<"More">>)]),
            Bag([pageId |-> Str(<<"p", "-", "7">>), status |-> Str(<<"Review">>),
                 content |-> Str(<<"More">>)])}
      [] op = "getPage" -> {Bag([pageId |-> Str(<<"p", "-", "7">>)])}
      [] op = "listDatabasePages" ->
           {NoArguments, Bag([status |-> Str(<<"Draft">>)])}
      [] op = "createEvent" ->
           {Bag([title |-> Str(<<"Review">>), startTime |-> Time(10),
                 endTime |-> Time(11)])}
      [] op = "listEvents" -> {NoArguments, Bag([maxResults |-> Num(5)])}
      [] op = "updateEvent" ->
           {Bag([eventId |-> Str(<<"e1">>), title |-> Str(<<"Review">>)])}
      [] op = "deleteEvent" -> {Bag([eventId |-> Str(<<"e1">>)])}
      [] op = "search" ->
           {Bag([query |-> Str(<<"AI">>)]),
            Bag([query |-> Str(<<"AI">>), maxResults |-> Num(1)]),
            Bag([query |-> Str(<<"AI">>), maxResults |-> Num(0)]),
            Bag([query |-> Str(<<"AI">>), maxResults |-> Num(-1)])}
      [] op = "extractContent" ->
           {Bag([url |-> Str(<<"https://", "example.com/post">>)])}
      [] op = "researchTopic" ->
           {Bag([topic |-> Str(<<"AI">>)]),
            Bag([topic |-> Str(<<"AI">>), depth |-> Str(<<"basic">>)])}
      [] op = "validateContent" ->
           {Bag([content |-> Str(<<"Text">>), topic |-> Str(<<"AI">>)])}
      [] OTHER -> {NoArguments}

\* A value of the wrong JavaScript type, or outside the enumeration, or no URL.
Mistyped(f, raw) ==
    IF f.enum # {} THEN Str(<<"other">>)
    ELSE IF f.url THEN Str(<<"not a url">>)
    ELSE IF raw.type = "string" THEN Num(7)
    ELSE Str(<<"seven">>)

\* Argument bags that do not match: a valid bag with a required field left
\* out, or with one field's value replaced by a mistyped one; and no bag at all
\* where the operation has no default for it.
InvalidBags(op) ==
    LET schema == Schema(op)
        given  == {b \in ValidBags(op) : b.given}
        has(b, i) == schema[i].name \in DOMAIN b.fields
    IN  {Bag([n \in DOMAIN b.fields \ {schema[i].name} |-> b.fields[n]]) :
            b \in given, i \in {j \in 1..Len(schema) : schema[j].required}}
        \cup
        UNION {{Bag([b.fields EXCEPT
                       ![schema[i].name] = Mistyped(schema[i], b.fields[schema[i].name])])
                  : i \in {j \in 1..Len(schema) : has(b, j)}} : b \in given}
        \cup
        (IF op \in DefaultsToEmptyBag \cup {"getRepositoryInfo"}
         THEN {} ELSE {NoArguments})

AllBags(op) == ValidBags(op) \cup InvalidBags(op)

\* What the caller of the handler gets: a ToolCallResult, a ZodError, or the
\* Error a connector threw; the handler's catch rethrows the error it caught.
Resolved(text) == [ok |-> TRUE, kind |-> "result", text |-> text]

RejectedWrapped(kind, message) ==
    [ok |-> FALSE, kind |-> "error", text |-> <<"Tool failed:">> \o message]

Rejected(kind, message) == [ok |-> FALSE, kind |-> kind, text |-> message]

\* The vendor calls an operation has under way once `k` answers are in and
\* `plan` is what it calls in all: every call is awaited, so it is the next
\* one alone.
AwaitingAll(plan, k) == SubSeq(plan, k + 1, Len(plan))

Awaiting(plan, k) ==
    IF k < Len(plan) THEN <<plan[k + 1]>> ELSE << >>

\* The answers the environment may give to a vendor call.
CalendarOutcomes ==
    VendorOutcomes \cup {VErr(<<"Invalid", "authentication", "credentials">>)}

OutcomesOf(op, api, issued) ==
    LET all == CASE api = "axios.get" /\ op # "extractContent" -> ProviderOutcomes
                 [] api = "git.createRef" -> CreateRefOutcomes
                 [] api = "git.getRef" -> GetRefOutcomes
                 [] op \in CalendarOps /\ api # "oauth2.refreshAccessToken" ->
                      CalendarOutcomes
                 [] OTHER -> VendorOutcomes
    IN  IF api = "oauth2.refreshAccessToken" /\ issued >= MaxIssued
        THEN {v \in all : ~v.ok} ELSE all

Apis(vcalls) == [i \in 1..Len(vcalls) |-> vcalls[i].api]

Event(e, api) == [e |-> e, api |-> api]

Issued(apis) == [i \in 1..Len(apis) |-> Event("issue", apis[i])]

\* The draws of Math.random an operation makes (validateContent alone).
ScoreDraws ==
    {<<x, y, z>> : x \in RandomDraws, y \in RandomDraws, z \in RandomDraws}

NoDraws == {<<0, 0, 0>>}

Draws(op) == IF op = "validateContent" THEN ScoreDraws ELSE NoDraws

\* A handler that swallows the error and answers with an empty text.
OutcomeSilent(r) == IF r.ok THEN Resolved(r.text) ELSE Resolved(<< >>)

\* How an operation that ran to its end settles the handler's promise.
Outcome(r) == IF r.ok THEN Resolved(r.text) ELSE Rejected("error", r.text)

\* Token files beyond TokenFiles: tokens that carry no refresh token.
CalTokenFiles ==
    TokenFiles \cup
    { [state |-> "tokens",
       tokens |-> [access_token |-> TRUE, refresh_token |-> FALSE, expired |-> e]] :
        e \in BOOLEAN }

\* The module body of index.ts runs: the four services are constructed, the
\* calendar service loads the token file. A constructor that throws ends the
\* process before the server is connected.
Start ==
    /\ proc = "starting"
    /\ IF ServicesConstructed(env)
       THEN /\ proc' = "running"
            /\ enabled' = WebSearchServiceConstructor(env)
            /\ credentials' = loadTokens(tokenFile)
            /\ gen' = [gen EXCEPT !.memory = gen.file]
       ELSE /\ proc' = "crashed"
            /\ UNCHANGED <<enabled, credentials, gen>>
    /\ UNCHANGED <<wfVars, env, tokenFile, inv>>

\* A handler that keeps the last answer of an operation in a field shared by
\* all calls and hands it out again.
CalledShared(s, name, bag, rnd) ==
    LET op     == IF name \in ConnectorOps THEN name ELSE Dispatch(name)
        parsed == ParseArguments(op, bag)
        r      == Run(op, parsed.value, credentials, enabled, rnd, << >>)
        flying == Awaiting(Apis(r.vcalls), 0)
        call   == [IdleInvocation EXCEPT
                     !.tool = IF name \in ConnectorOps THEN "" ELSE name,
                     !.op = op, !.bag = bag,
                     !.alone = \A t \in Slots \ {s} : inv[t].st = "idle"]
        memo   == {t \in Slots \ {s} : inv[t].st = "done" /\ inv[t].op = op}
    IN  IF memo # {}
        THEN [call EXCEPT !.st = "done", !.a = parsed.value,
                          !.creds0 = credentials,
                          !.res = inv[CHOOSE t \in memo : TRUE].res]
        ELSE IF op = "unknown"
        THEN [call EXCEPT !.st = "done",
                          !.res = Rejected("error", <<"Unknown tool:", name>>)]
        ELSE IF ~parsed.ok
        THEN [call EXCEPT !.st = "done",
                          !.res = Rejected("validation", parsed.issues)]
        ELSE IF flying = << >>
        THEN [call EXCEPT !.st = "done", !.a = parsed.value,
                          !.creds0 = credentials, !.res = Outcome(r)]
        ELSE [call EXCEPT !.st = "running", !.a = parsed.value,
                          !.creds0 = credentials, !.inflight = flying,
                          !.log = Issued(flying)]

\* The handler call in slot s as it stands at its first await (or at its end,
\* when it has none): tool `name` (or the operation `name` called directly)
\* with the bag `bag`.
Called(s, name, bag, rnd) ==
    LET op     == IF name \in ConnectorOps THEN name ELSE Dispatch(name)
        parsed == ParseArguments(op, bag)
        r      == Run(op, parsed.value, credentials, enabled, rnd, << >>)
        flying == Awaiting(Apis(r.vcalls), 0)
        call   == [IdleInvocation EXCEPT
                     !.tool = IF name \in ConnectorOps THEN "" ELSE name,
                     !.op = op, !.bag = bag,
                     !.alone = \A t \in Slots \ {s} : inv[t].st = "idle"]
    IN  IF op = "unknown"
        THEN [call EXCEPT !.st = "done",
                          !.res = Rejected("error", <<"Unknown tool:", name>>)]
        ELSE IF ~parsed.ok
        THEN [call EXCEPT !.st = "done",
                          !.res = Rejected("validation", parsed.issues)]
        ELSE IF flying = << >>
        THEN [call EXCEPT !.st = "done", !.a = parsed.value,
                          !.creds0 = credentials, !.res = Outcome(r)]
        ELSE [call EXCEPT !.st = "running", !.a = parsed.value,
                          !.creds0 = credentials, !.inflight = flying,
                          !.log = Issued(flying)]

\* A tool call arrives (or a connector operation is called directly), with any
\* bag of arguments or with an accepted one only: the operation parses its
\* arguments and runs up to its first await.
Call(s, names, anyBag) ==
    /\ proc = "running"
    /\ inv[s].st = "idle"
    /\ \E name \in names :
         LET op == IF name \in ConnectorOps THEN name ELSE Dispatch(name)
         IN  \E bag \in (IF anyBag THEN AllBags(op) ELSE ValidBags(op)) :
               \E rnd \in Draws(op) :
                 inv' = [t \in Slots |->
                           IF t = s THEN Called(s, name, bag, rnd)
                           ELSE IF inv[t].st = "idle" THEN inv[t]
                           ELSE [inv[t] EXCEPT !.alone = FALSE]]
    /\ UNCHANGED <<wfVars, enabled, credentials, env, proc, tokenFile, gen>>

\* The vendor call the operation in slot s awaits is answered; the operation
\* runs on to its next await or to its end. A refresh that succeeded has set
\* the client's credentials by then; nothing is written to the token file.
Settle(s) ==
    /\ inv[s].st = "running"
    /\ \E v \in OutcomesOf(inv[s].op, inv[s].inflight[1], gen.latest) :
         \E rnd \in Draws(inv[s].op) :
           LET c      == inv[s]
               api    == c.inflight[1]
               got    == Append(c.got, v)
               r      == Run(c.op, c.a, c.creds0, enabled, rnd, got)
               flying == Awaiting(Apis(r.vcalls), Len(got))
               fresh  == IF Len(c.inflight) > 1 THEN << >> ELSE flying
               log    == Append(c.log, Event("settle", api)) \o Issued(fresh)
               refreshed == api = "oauth2.refreshAccessToken" /\ v.ok
           IN  /\ inv' = [inv EXCEPT ![s] =
                            IF flying = << >>
                            THEN [c EXCEPT !.st = "done", !.got = got,
                                           !.inflight = << >>, !.log = log,
                                           !.res = Outcome(r)]
                            ELSE [c EXCEPT !.got = got, !.inflight = flying,
                                           !.log = log]]
               /\ credentials' = IF refreshed
                                 THEN ensureAuthenticated(c.creds0, v).creds
                                 ELSE credentials
               /\ gen' = IF refreshed
                         THEN [gen EXCEPT !.latest = @ + 1, !.memory = gen.latest + 1]
                         ELSE gen
    /\ UNCHANGED <<wfVars, enabled, env, proc, tokenFile>>

\* The handler's promise settles and the caller has its answer.
Return(s) ==
    /\ inv[s].st = "done"
    /\ inv' = [inv EXCEPT ![s] = IdleInvocation]
    /\ UNCHANGED <<wfVars, enabled, credentials, env, proc, tokenFile, gen>>

\* Time passes: the expiry_date of the client's credentials falls into the past.
TokenExpires ==
    /\ proc = "running"
    /\ credentials.access_token
    /\ ~credentials.expired
    /\ credentials' = [credentials EXCEPT !.expired = TRUE]
    /\ UNCHANGED <<wfVars, enabled, env, proc, tokenFile, gen, inv>>

\* An OAuth callback that also hands the new tokens to the calendar service
\* of the running server.
OAuthCallbackShared ==
    /\ gen.latest < MaxIssued
    /\ tokenFile' = [state |-> "tokens",
                     tokens |-> [access_token |-> TRUE, refresh_token |-> TRUE,
                                 expired |-> FALSE]]
    /\ credentials' = tokenFile'.tokens
    /\ gen' = [gen EXCEPT !.latest = @ + 1, !.file = gen.latest + 1,
                          !.memory = gen.latest + 1]
    /\ UNCHANGED <<wfVars, enabled, env, proc, inv>>

\* GET /auth/google/callback of the OAuth server (its own process): the code
\* is exchanged for tokens and saveTokens writes them to the token file.
OAuthCallback ==
    /\ gen.latest < MaxIssued
    /\ tokenFile' = [state |-> "tokens",
                     tokens |-> [access_token |-> TRUE, refresh_token |-> TRUE,
                                 expired |-> FALSE]]
    /\ gen' = [gen EXCEPT !.latest = @ + 1, !.file = gen.latest + 1]
    /\ UNCHANGED <<wfVars, enabled, credentials, env, proc, inv>>

WorkflowIdle ==
    /\ pc = "idle"
    /\ tool = ""
    /\ args = << >>
    /\ connCalls = << >>
    /\ vendorCalls = << >>
    /\ research = NoResearch
    /\ outcomes = << >>
    /\ result = NoResult
    /\ created = {}

\* Connector operations called one at a time, with every kind of argument bag,
\* by a process started in any of the environments.
ConnInit ==
    /\ WorkflowIdle
    /\ env \in Environments
    /\ proc = "starting"
    /\ tokenFile \in CalTokenFiles
    /\ enabled = FALSE
    /\ credentials = NoCredentials
    /\ gen = NoneIssued
    /\ inv = [s \in Slots |-> IdleInvocation]

\* What may be called: the tools of the handler's switch, a name it does not
\* know, and the operations of the services themselves.
Callable == ConnectorTools \cup {"no_such_tool"} \cup ConnectorOps

OpCall == Call(1, Callable, TRUE)

OpSettle == Settle(1)

OpReturn == Return(1)

ConnNext ==
    \/ Start
    \/ OpCall
    \/ OpSettle
    \/ OpReturn

ConnSpec == ConnInit /\ [][ConnNext]_vars

\* Calendar operations called concurrently by a running server, while tokens
\* expire and the OAuth server completes authorisations.
CalInit ==
    /\ WorkflowIdle
    /\ env = CompleteEnv("false")
    /\ proc = "starting"
    /\ tokenFile \in CalTokenFiles
    /\ enabled = FALSE
    /\ credentials = NoCredentials
    /\ gen = NoneIssued
    /\ inv = [s \in Slots |-> IdleInvocation]

CalendarCallable ==
    {"calendar_create_event", "calendar_list_events", "updateEvent", "deleteEvent"}

CalCall == \E s \in Slots : Call(s, CalendarCallable, FALSE)

CalSettle == \E s \in Slots : Settle(s)

CalReturn == \E s \in Slots : Return(s)

CalNext ==
    \/ Start
    \/ CalCall
    \/ CalSettle
    \/ CalReturn
    \/ TokenExpires
    \/ OAuthCallback

CalSpec == CalInit /\ [][CalNext]_vars

\* Operations of all four services called concurrently with accepted
\* arguments, in live and in disabled mode.
PairEnvironments == {CompleteEnv("true"), CompleteEnv("false")}

PairInit ==
    /\ WorkflowIdle
    /\ env \in PairEnvironments
    /\ proc = "starting"
    /\ tokenFile \in CalTokenFiles
    /\ enabled = FALSE
    /\ credentials = NoCredentials
    /\ gen = NoneIssued
    /\ inv = [s \in Slots |-> IdleInvocation]

PairCallable ==
    {"createBranch", "updatePage", "createEvent", "listEvents", "search",
     "validateContent"}

PairCall == \E s \in Slots : Call(s, PairCallable, FALSE)

PairSettle == \E s \in Slots : Settle(s)

PairReturn == \E s \in Slots : Return(s)

PairNext ==
    \/ Start
    \/ PairCall
    \/ PairSettle
    \/ PairReturn

PairSpec == PairInit /\ [][PairNext]_vars

\* The same concurrent calls while tokens expire, every vendor call being
\* answered in the end and every settled promise handed to its caller: the
\* handler awaits each vendor call, and Node's event loop runs every
\* continuation that is ready.
LiveCallable == {"createEvent", "listEvents", "updatePage"}

\* No call of researchTopic is in progress.
NoResearchRunning == \A t \in Slots : inv[t].op # "researchTopic"

LiveCall == NoResearchRunning /\ \E s \in Slots : Call(s, LiveCallable, FALSE)

\* researchTopic, the one operation with a loop of vendor calls, is followed
\* through its loop while no other call is in progress.
ResearchCallable == {"researchTopic"}

LoneResearch ==
    /\ \A t \in Slots : inv[t].st = "idle"
    /\ Call(1, ResearchCallable, FALSE)

LiveNext ==
    \/ Start
    \/ LiveCall
    \/ LoneResearch
    \/ PairSettle
    \/ PairReturn
    \/ TokenExpires

\* Weak fairness of Settle(s), written with its enabling condition: a call is
\* awaiting an answer exactly when it is running, and every answer changes
\* its log.
SettleFair(s) ==
    ([]<>(inv[s].st # "running")) \/ ([]<><<Settle(s)>>_vars)

LiveSpec ==
    /\ PairInit
    /\ [][LiveNext]_vars
    /\ \A s \in Slots : SettleFair(s) /\ WF_vars(Return(s))

----------------------------------------------------------------------------
(* Properties *)

Workflows ==
    {"workflow_create_content_plan", "workflow_research_topic",
     "workflow_publish_content"}

\* The declared step sequence of each composite operation.
DeclaredSteps(t) ==
    CASE t = "workflow_create_content_plan" ->
           <<"research", "page", "issue", "milestone", "deadline">>
      [] t = "workflow_research_topic" -> <<"research", "page", "issue">>
      [] OTHER -> <<"fetch", "branch", "pr", "update">>

StepNames(outs) == [i \in 1..Len(outs) |-> outs[i].step]

HasVendorCall(api) == \E i \in 1..Len(vendorCalls) : vendorCalls[i].api = api

HasConnCall(op) == \E i \in 1..Len(connCalls) : connCalls[i].op = op

VendorFailed(api) ==
    \E i \in 1..Len(vendorCalls) : vendorCalls[i].api = api /\ ~vendorCalls[i].ok

\* C1: when a composite operation has returned, its status is 'complete'
\* exactly when every attempted (not skipped) step succeeded, 'failed' exactly
\* when no step succeeded, and 'partial' exactly when some but not all
\* attempted steps succeeded.
C1_StatusRule ==
    (pc = "done" /\ tool \in Workflows) =>
        LET outs      == result.outcomes
            attempted == {i \in 1..Len(outs) : outs[i].status # "skipped"}
            good      == {i \in attempted : outs[i].status = "success"}
        IN  /\ result.kind = "result"
            /\ outs = outcomes
            /\ attempted # {}
            /\ result.status \in {"complete", "partial", "failed"}
            /\ (result.status = "complete") <=> (good = attempted)
            /\ (result.status = "failed") <=> (good = {})
            /\ (result.status = "partial") <=> (good # {} /\ good # attempted)

\* C1 witness: a publish content call returned 'partial' with a failed branch
\* step, a skipped pull request and two successful steps.
C1_Witness ==
    /\ pc = "done"
    /\ tool = "workflow_publish_content"
    /\ result.status = "partial"
    /\ \E i \in 1..Len(result.outcomes) : result.outcomes[i].status = "failed"
    /\ \E i \in 1..Len(result.outcomes) : result.outcomes[i].status = "skipped"
    /\ Succeeded(result.outcomes, "update")

\* C2: when a composite operation has returned, the result lists exactly one
\* outcome per declared step, in the declared order; the steps recorded as
\* attempted are exactly the steps whose connector call was issued, in the
\* order the calls were issued, and no issued call lacks an outcome.
C2_EveryStepReported ==
    (pc = "done" /\ tool \in Workflows) =>
        LET outs == result.outcomes
            att  == SelectSeq(outs, LAMBDA o : o.status # "skipped")
        IN  /\ StepNames(outs) = DeclaredSteps(tool)
            /\ StepNames(att) = [i \in 1..Len(connCalls) |-> connCalls[i].step]
            /\ \A i \in 1..Len(outs) :
                 outs[i].status \in {"success", "failed", "skipped"}

\* C2 witness: a create content plan call returned with failed page and issue
\* steps, and all five steps are in the result.
C2_Witness ==
    /\ pc = "done"
    /\ tool = "workflow_create_content_plan"
    /\ Len(result.outcomes) = 5
    /\ VendorFailed("pages.create")
    /\ VendorFailed("issues.create")
    /\ result.outcomes[2].status = "failed"
    /\ result.outcomes[3].status = "failed"

\* C3: in publish content, once the page fetch has failed (pages.retrieve or
\* blocks.children.list failed), no createBranch, createPullRequest or
\* updatePage call is issued, no vendor call of theirs either, and the
\* operation has returned with status 'failed'.
C3_FetchFailureIsFatal ==
    (tool = "workflow_publish_content"
       /\ (VendorFailed("pages.retrieve") \/ VendorFailed("blocks.children.list")))
    => /\ ~HasConnCall("createBranch")
       /\ ~HasConnCall("createPullRequest")
       /\ ~HasConnCall("updatePage")
       /\ ~HasVendorCall("git.getRef")
       /\ ~HasVendorCall("git.createRef")
       /\ ~HasVendorCall("pulls.create")
       /\ ~HasVendorCall("pages.update")
       /\ pc = "done"
       /\ result.kind = "result"
       /\ result.status = "failed"

\* C3 witness: a publish content call whose block listing failed after the
\* page itself was retrieved.
C3_Witness ==
    /\ tool = "workflow_publish_content"
    /\ pc = "done"
    /\ HasVendorCall("pages.retrieve")
    /\ ~VendorFailed("pages.retrieve")
    /\ VendorFailed("blocks.children.list")
    /\ result.status = "failed"

\* The createRef call failed with the vendor's "already exists" message.
CreateRefAlreadyExists ==
    \E i \in 1..Len(vendorCalls) :
        /\ vendorCalls[i].api = "git.createRef"
        /\ ~vendorCalls[i].ok
        /\ Includes(vendorCalls[i].message, <<"already", "exists">>)

\* The head branch a createPullRequest call was issued with, for a createRef
\* of refs/heads/<head>.
PullRequestIssuedFor(ref) ==
    \E i \in 1..Len(connCalls) :
        /\ connCalls[i].op = "createPullRequest"
        /\ <<"refs/heads/">> \o connCalls[i].arg.head = ref

\* C4: in publish content, once createBranch has failed because the ref
\* already exists, the branch step is recorded as successful, the pull request
\* is not skipped, and the operation does not get past the pull-request step
\* without a createPullRequest call whose head is that branch.
C4_AlreadyExistsIsSuccess ==
    (tool = "workflow_publish_content" /\ CreateRefAlreadyExists) =>
        /\ Succeeded(outcomes, "branch")
        /\ \A i \in 1..Len(outcomes) :
             outcomes[i].step = "branch" =>
                Includes(outcomes[i].text, <<"Failed to create GitHub branch:">>)
        /\ \A i \in 1..Len(outcomes) :
             outcomes[i].step = "pr" => outcomes[i].status # "skipped"
        /\ \/ pc = "pr"
           \/ \E j \in 1..Len(vendorCalls) :
                /\ vendorCalls[j].api = "git.createRef"
                /\ PullRequestIssuedFor(vendorCalls[j].arg.ref)

\* C4 witness: the branch existed already and the pull request was opened.
C4_Witness ==
    /\ tool = "workflow_publish_content"
    /\ pc = "done"
    /\ CreateRefAlreadyExists
    /\ HasVendorCall("pulls.create")
    /\ ~VendorFailed("pulls.create")
    /\ result.status = "complete"

\* The prerequisite of a step, "" when it has none.
Prerequisite(step) ==
    CASE step = "branch" -> "fetch"
      [] step = "update" -> "fetch"
      [] step = "pr"     -> "branch"
      [] OTHER           -> ""

StepFailedOrSkipped(step) ==
    \E i \in 1..Len(outcomes) :
        outcomes[i].step = step /\ outcomes[i].status \in {"failed", "skipped"}

\* createBranch failed for a reason other than "already exists".
BranchReallyFailed ==
    \/ VendorFailed("git.getRef")
    \/ \E i \in 1..Len(vendorCalls) :
         /\ vendorCalls[i].api = "git.createRef"
         /\ ~vendorCalls[i].ok
         /\ ~Includes(vendorCalls[i].message, <<"already", "exists">>)

\* C5: in every composite operation, a step whose prerequisite failed (or was
\* itself skipped) has no connector call issued and is recorded as 'skipped'
\* with a reason; a step is recorded as skipped only in that case; and in
\* publish content, once createBranch failed for a reason other than
\* "already exists", no createPullRequest call and no pulls.create call is made.
C5_FailedPrerequisiteSkips ==
    tool \in Workflows =>
        /\ \A i \in 1..Len(DeclaredSteps(tool)) :
             LET step == DeclaredSteps(tool)[i]
             IN  (Prerequisite(step) # "" /\ StepFailedOrSkipped(Prerequisite(step)))
                 => /\ \A j \in 1..Len(connCalls) : connCalls[j].step # step
                    /\ \E j \in 1..Len(outcomes) :
                         /\ outcomes[j].step = step
                         /\ outcomes[j].status = "skipped"
                         /\ Len(outcomes[j].text) >= 2
                         /\ outcomes[j].text[1] = "skipped:"
        /\ \A j \in 1..Len(outcomes) :
             outcomes[j].status = "skipped" =>
                /\ Prerequisite(outcomes[j].step) # ""
                /\ StepFailedOrSkipped(Prerequisite(outcomes[j].step))
        /\ (tool = "workflow_publish_content" /\ BranchReallyFailed) =>
              /\ ~HasConnCall("createPullRequest")
              /\ ~HasVendorCall("pulls.create")

\* C5 witness: createRef failed for another reason, the pull request was
\* skipped and the page update still ran.
C5_Witness ==
    /\ tool = "workflow_publish_content"
    /\ pc = "done"
    /\ ~VendorFailed("git.getRef")
    /\ BranchReallyFailed
    /\ HasConnCall("updatePage")
    /\ \E j \in 1..Len(outcomes) :
         outcomes[j].step = "pr" /\ outcomes[j].status = "skipped"

\* Every network call of the research step failed (and there was one).
ResearchCallsAllFailed ==
    /\ HasVendorCall("axios.get")
    /\ \A i \in 1..Len(vendorCalls) :
         vendorCalls[i].api = "axios.get" => ~vendorCalls[i].ok

\* C6: create content plan and research topic begin with the non-fatal
\* research step: when that step's search calls have all failed, the operation
\* still returns a result, the page and issue calls are still issued, and the
\* status is 'partial' or 'failed'.
C6_FirstStepFailureReported ==
    (pc = "done" /\ tool \in Workflows /\ ResearchCallsAllFailed) =>
        /\ result.kind = "result"
        /\ HasConnCall("createPage")
        /\ HasConnCall("createIssue")
        /\ result.status \in {"partial", "failed"}

\* C7: in create content plan, when neither createEvent call had usable
\* credentials (so neither reached events.insert) while research, page and
\* issue succeeded, the status is 'partial', both calendar steps are recorded
\* as failed, and the summary still holds the page URL and the issue URL.
C7_CalendarAuthFailureIsPartial ==
    (pc = "done" /\ tool = "workflow_create_content_plan"
       /\ ~HasVendorCall("events.insert")
       /\ Succeeded(outcomes, "research")
       /\ Succeeded(outcomes, "page")
       /\ Succeeded(outcomes, "issue"))
    => /\ result.status = "partial"
       /\ \A i \in 1..Len(result.outcomes) :
            result.outcomes[i].step \in {"milestone", "deadline"} =>
               result.outcomes[i].status = "failed"
       /\ Includes(result.text, NotionUrl(NewPageId))
       /\ Includes(result.text, IssueUrl)

ExpectedQueries ==
    IF "depth" \in DOMAIN args /\ args.depth = "basic"
    THEN <<args.topic>>
    ELSE <<args.topic, args.topic \o <<"overview">>,
           args.topic \o <<"latest trends">>, args.topic \o <<"best practices">>,
           args.topic \o <<"examples">>>>

IsPrefix(p, q) == Len(p) <= Len(q) /\ SubSeq(q, 1, Len(p)) = p

\* C9: in research topic, the search calls issued so far are a prefix of the
\* expected list (the bare topic for depth 'basic'; the topic and its four
\* qualified variants, in the fixed order, for 'comprehensive' and for an
\* omitted depth), every search asks for 3 results, and once the research step
\* is over exactly the expected calls were issued, whether or not searches
\* failed; in live mode the network calls carry the same queries in the same
\* order, in disabled mode there is none.
C9_SearchQueries ==
    tool = "workflow_research_topic" =>
        LET issued == [i \in 1..Len(research.searched) |->
                          research.searched[i].query]
            gets   == SelectSeq(vendorCalls, LAMBDA c : c.api = "axios.get")
        IN  /\ IsPrefix(issued, ExpectedQueries)
            /\ \A i \in 1..Len(research.searched) :
                 research.searched[i].maxResults = 3
            /\ pc \notin {"research_start", "research"} => issued = ExpectedQueries
            /\ enabled => [i \in 1..Len(gets) |-> gets[i].arg.q] = issued
            /\ ~enabled => Len(gets) = 0

\* C9 witness: a live research with depth omitted that issued five searches,
\* of which the first failed and the last succeeded.
C9_Witness ==
    /\ tool = "workflow_research_topic"
    /\ pc = "page"
    /\ enabled
    /\ "depth" \notin DOMAIN args
    /\ Len(research.searched) = 5
    /\ Len(vendorCalls) = 5
    /\ ~vendorCalls[1].ok
    /\ vendorCalls[5].ok

\* The first five lines of a text: the text itself when it has fewer than five
\* line breaks, else what precedes its fifth line break.
FirstFiveLines(t) ==
    LET nl == {i \in 1..Len(t) : t[i] = NL}
    IN  IF Cardinality(nl) < 5 THEN t
        ELSE SubSeq(t, 1, (CHOOSE k \in nl :
                               Cardinality({j \in nl : j < k}) = 4) - 1)

FindingHeader(q) == <<"**">> \o q \o <<"**:", NL>>

\* C10 as claimed: each findings entry is its query's header followed by exactly
\* the first five lines of that query's result text.
C10_FindingsAreFirstFiveLines ==
    \A i \in 1..Len(research.findings) :
        research.findings[i] =
            FindingHeader(research.results[i].query)
            \o FirstFiveLines(research.results[i].results)

\* C10 as amended: once the research step is over there is one findings entry
\* per issued query, in query order, and each is its query's header, the first
\* five lines of that query's result text, and then the literal "..."; the
\* research summary contains every entry.
C10_FindingsAreFirstFiveLinesThenEllipsis ==
    /\ Len(research.findings) \in {0, Len(research.searched)}
    /\ (tool \in Workflows /\ pc \notin {"fetch", "research_start", "research"}
          /\ research.queries # << >>)
       => /\ Len(research.findings) = Len(research.queries)
          /\ Len(research.findings) > 0
    /\ \A i \in 1..Len(research.findings) :
         /\ research.results[i].query = research.searched[i].query
         /\ research.findings[i] =
               FindingHeader(research.searched[i].query)
               \o FirstFiveLines(research.results[i].results) \o <<"...">>
         /\ Includes(outcomes[1].text, research.findings[i])

\* C10 witness: a finished live comprehensive research on the two-line topic,
\* with a failed and a successful search among its five.
C10_Witness ==
    /\ Len(research.findings) = 5
    /\ enabled
    /\ research.topic = <<"unit", NL, "testing">>
    /\ VendorFailed("axios.get")
    /\ \E i \in 1..Len(vendorCalls) : vendorCalls[i].ok
    /\ \A i \in 1..5 :
         Len(research.findings[i]) < Len(research.results[i].results)

----------------------------------------------------------------------------
(* Properties of the connector operations *)

Refresh == "oauth2.refreshAccessToken"

\* The positions of the log at which a call of api was issued (or settled).
LogPositions(log, e, api) ==
    {i \in 1..Len(log) : log[i].e = e /\ log[i].api = api}

\* The call in slot s awaits the answer of a call of api.
InFlight(s, api) ==
    \E i \in 1..Len(inv[s].inflight) : inv[s].inflight[i] = api

\* The vendor calls of the log other than the token refresh.
Substantive(log) ==
    {i \in 1..Len(log) : log[i].e = "issue" /\ log[i].api # Refresh}

\* The call in slot s found the token expired with a refresh token at hand.
SawExpiredToken(s) ==
    /\ inv[s].st \in {"running", "done"}
    /\ inv[s].op \in CalendarOps
    /\ inv[s].creds0.expired
    /\ inv[s].creds0.refresh_token

\* C11: a calendar operation that runs alone and finds the stored expiry_date
\* in the past, with a refresh token present, makes exactly one token refresh
\* call, and that call has been answered before the calendar API call is issued.
C11_OneRefreshBeforeTheCall ==
    \A s \in Slots :
        (SawExpiredToken(s) /\ inv[s].alone) =>
            /\ Cardinality(LogPositions(inv[s].log, "issue", Refresh)) = 1
            /\ \A i \in Substantive(inv[s].log) :
                 \E j \in LogPositions(inv[s].log, "settle", Refresh) : j < i

\* A lone createEvent refreshed the token and then inserted the event.
C11_Witness ==
    \E s \in Slots :
        /\ SawExpiredToken(s)
        /\ inv[s].alone
        /\ inv[s].st = "done"
        /\ inv[s].op = "createEvent"
        /\ Apis(inv[s].log) = <<Refresh, Refresh, "events.insert", "events.insert">>

\* C12: of two calendar operations that run concurrently while the token is
\* expired and a refresh token is present, at most one has a refresh call in
\* flight, and no more than one refresh call is issued by the two together.
C12_AtMostOneRefresh ==
    \A s \in Slots : \A t \in Slots \ {s} :
        (SawExpiredToken(s) /\ SawExpiredToken(t)) =>
            /\ ~(InFlight(s, Refresh) /\ InFlight(t, Refresh))
            /\ Cardinality(LogPositions(inv[s].log, "issue", Refresh))
               + Cardinality(LogPositions(inv[t].log, "issue", Refresh)) <= 1

\* The call in slot s is a calendar operation that has ended and had no usable
\* token: no access token, or an expired one that could not be refreshed.
EndedWithoutToken(s) ==
    /\ inv[s].st = "done"
    /\ inv[s].op \in CalendarOps
    /\ ParseArguments(inv[s].op, inv[s].bag).ok
    /\ \/ ~inv[s].creds0.access_token
       \/ /\ inv[s].creds0.expired
          /\ \/ ~inv[s].creds0.refresh_token
             \/ (Len(inv[s].got) = 1 /\ ~inv[s].got[1].ok)

\* The caller was thrown an error that says to authenticate again.
AuthenticationError(res) ==
    /\ ~res.ok
    /\ res.kind = "error"
    /\ \/ Includes(res.text, AuthRequiredMessage)
       \/ Includes(res.text, RefreshFailedMessage)

\* C13: a calendar operation called while the connector has no usable token
\* fails with an authentication-required error that reaches the caller; it
\* never returns a success-shaped result.
C13_NoTokenIsAnError ==
    \A s \in Slots : EndedWithoutToken(s) => AuthenticationError(inv[s].res)

\* The operation in slot s has ended after a vendor call of its own failed.
EndedAfterVendorFailure(s) ==
    /\ inv[s].st = "done"
    /\ \E i \in 1..Len(inv[s].got) : ~inv[s].got[i].ok

\* C14: a public connector operation one of whose vendor calls fails (a vendor
\* error or a network failure) ends by signalling an error to its caller, never
\* by returning a success-shaped result.
C14_VendorFailureIsAnError ==
    \A s \in Slots :
        EndedAfterVendorFailure(s) => (~inv[s].res.ok /\ inv[s].res.kind = "error")

\* Pieces of text that only the placeholder (mock) answers of the web search
\* service are built from.
MockMarkers ==
    {"**Mock Web Search Results for:", "**Mock Content Extraction from:",
     "(Mock due to error)", "https://example.com/search?q=",
     "https://sample.org/info/", "https://example.com", "https://sample.org"}

ContainsMock(text) == \E i \in 1..Len(text) : text[i] \in MockMarkers

\* An operation of the web search service has ended in slot s.
ResearchEnded(s) ==
    /\ inv[s].st = "done"
    /\ inv[s].op \in WebSearchOps
    /\ ParseArguments(inv[s].op, inv[s].bag).ok

\* C15: the mode of the web search service is the one fixed at construction;
\* in disabled mode an operation makes no network call and returns a
\* placeholder that depends on its arguments only; in live mode the result
\* contains no placeholder (mock) content.
C15_ModesAreNotMixed ==
    /\ proc = "running" => enabled = WebSearchServiceConstructor(env)
    /\ \A s \in Slots :
         ResearchEnded(s) =>
            IF ~enabled
            THEN /\ inv[s].log = << >>
                 /\ inv[s].res.ok
                 /\ \A rnd \in Draws(inv[s].op) :
                      inv[s].res.text =
                        Run(inv[s].op, inv[s].a, NoCredentials, FALSE, rnd, << >>).text
            ELSE ~ContainsMock(inv[s].res.text)

\* The call in slot s was handed a bag of arguments its operation's schema
\* does not accept.
InvalidArguments(s) ==
    /\ inv[s].st = "done"
    /\ inv[s].op \in ConnectorOps
    /\ ~ParseArguments(inv[s].op, inv[s].bag).ok

\* C16: an operation handed a bag that does not match its declared shape
\* rejects it with a validation error before any vendor call or token refresh
\* is made, and the caller of the dispatch shell receives that error as it was
\* raised; the calendar and the web search operations are no exception.
C16_ValidationComesFirst ==
    \A s \in Slots :
        InvalidArguments(s) =>
            /\ inv[s].res = [ok |-> FALSE, kind |-> "validation",
                             text |-> ParseArguments(inv[s].op, inv[s].bag).issues]
            /\ inv[s].log = << >>
            /\ inv[s].got = << >>

\* calendar_create_event was rejected for its arguments while the token was
\* expired, and web_search while the service was live: neither called out.
C16_Witness ==
    \E s \in Slots :
        /\ InvalidArguments(s)
        /\ \/ /\ inv[s].tool = "calendar_create_event"
              /\ credentials.expired
              /\ credentials.refresh_token
           \/ /\ inv[s].tool = "web_search"
              /\ enabled

\* A variable of the environment that a connector requires is absent or empty.
ConfigurationMissing ==
    \E name \in RequiredConfig : Falsy(Getenv(env, name))

\* C17: when a configuration value required by the GitHub, the Notion or the
\* calendar connector is absent or empty, construction fails: the process
\* never comes to run and no tool call is ever dispatched.
C17_NoConfigurationNoDispatch ==
    ConfigurationMissing =>
        /\ proc # "running"
        /\ \A s \in Slots : inv[s] = IdleInvocation

\* The process ended at start-up for want of a configuration value.
C17_Witness ==
    /\ ConfigurationMissing
    /\ proc = "crashed"

\* An operation has ended in slot s that was handed arguments it accepts.
Ended(s) ==
    /\ inv[s].st = "done"
    /\ inv[s].op \in ConnectorOps
    /\ ParseArguments(inv[s].op, inv[s].bag).ok

\* The vendor calls the call in slot s has issued.
CallsIssued(s) == {i \in 1..Len(inv[s].log) : inv[s].log[i].e = "issue"}

CallsWhenAllSucceed(op, a, creds, isEnabled) ==
    CASE op \in {"createBranch", "getPage"} -> 2
      [] op = "updatePage" ->
           IF "content" \in DOMAIN a /\ a.content # << >> THEN 2 ELSE 1
      [] op \in CalendarOps ->
           IF ~creds.access_token THEN 0
           ELSE IF ~creds.expired THEN 1
           ELSE IF creds.refresh_token THEN 2 ELSE 0
      [] op \in {"search", "extractContent", "validateContent"} ->
           IF isEnabled THEN 1 ELSE 0
      [] op = "researchTopic" ->
           IF ~isEnabled THEN 0
           ELSE IF "depth" \in DOMAIN a /\ a.depth = "basic" THEN 1 ELSE 5
      [] OTHER -> 1

C19_TokenFileHoldsTheLatest ==
    gen.latest > 0 =>
        /\ tokenFile.state = "tokens"
        /\ gen.file = gen.latest

\* C20: within one invocation the external calls are strictly sequential: at
\* most one is in flight at any time, and a call is issued only after the call
\* before it has been answered (with a result or with an error).
C20_OneCallAtATime ==
    \A s \in Slots :
        LET log == inv[s].log
        IN  /\ Len(inv[s].inflight) <= 1
            /\ \A i \in 1..Len(log) :
                 IF i % 2 = 1
                 THEN log[i].e = "issue"
                 ELSE log[i].e = "settle" /\ log[i].api = log[i - 1].api
            /\ inv[s].st = "running" =>
                 /\ Len(log) % 2 = 1
                 /\ inv[s].inflight = <<log[Len(log)].api>>
            /\ inv[s].st = "done" => Len(log) % 2 = 0

\* A comprehensive research has made its five searches, each answered before
\* the next was sent.
C20_Witness ==
    \E s \in Slots :
        /\ inv[s].st = "done"
        /\ inv[s].op = "researchTopic"
        /\ Len(inv[s].log) = 10

----------------------------------------------------------------------------
(* Properties of the invocations as a whole *)

\* The vendor calls that create an artifact, and the calls the declared steps
\* of the composite operations make at all.
CreatingApis ==
    {"pages.create", "issues.create", "git.createRef", "pulls.create",
     "events.insert"}

DeclaredApis ==
    CreatingApis \cup {"axios.get", "oauth2.refreshAccessToken", "pages.retrieve",
                       "blocks.children.list", "git.getRef", "pages.update"}

\* The artifact made by the i-th vendor call exists: the call created it.
Created(i) == vendorCalls[i].api \in CreatingApis /\ vendorCalls[i].ok

\* The status the steps so far were recorded with.
StatusOf(step) ==
    IF \E i \in 1..Len(outcomes) : outcomes[i].step = step
    THEN outcomes[CHOOSE i \in 1..Len(outcomes) : outcomes[i].step = step].status
    ELSE "none"

\* Publish content has ended and its page status update failed.
PublishUpdateFailed ==
    /\ tool = "workflow_publish_content"
    /\ pc = "done"
    /\ StatusOf("update") = "failed"

\* C21: no composite operation compensates: after a call that created an
\* artifact, every later call of the invocation is a call of a declared step,
\* never a delete or a revert, and no step is called twice; when the page
\* status update of publish content fails, the failing update is the last call
\* made, the branch and the pull request created before it stay recorded as
\* created, and the update is recorded as a failed step.
C21_NoCompensation ==
    /\ \A i \in 1..Len(vendorCalls) : \A j \in (i + 1)..Len(vendorCalls) :
         Created(i) =>
            /\ vendorCalls[j].api \in DeclaredApis
            /\ vendorCalls[j].api = "pages.update" => j = Len(vendorCalls)
    /\ \A i \in 1..Len(connCalls) : \A j \in 1..Len(connCalls) :
         connCalls[i].step = connCalls[j].step => i = j
    /\ PublishUpdateFailed =>
         /\ vendorCalls[Len(vendorCalls)].api = "pages.update"
         /\ ~vendorCalls[Len(vendorCalls)].ok
         /\ \A i \in 1..Len(vendorCalls) :
              (vendorCalls[i].api = "git.createRef" /\ vendorCalls[i].ok)
                 => StatusOf("branch") = "success"
         /\ \A i \in 1..Len(vendorCalls) :
              (vendorCalls[i].api = "pulls.create" /\ vendorCalls[i].ok)
                 => StatusOf("pr") = "success"
         /\ result.status # "complete"

\* Publish content created the branch and the pull request, and then its page
\* status update failed.
C21_Witness ==
    /\ PublishUpdateFailed
    /\ \E i \in 1..Len(vendorCalls) : vendorCalls[i].api = "git.createRef" /\ Created(i)
    /\ \E i \in 1..Len(vendorCalls) : vendorCalls[i].api = "pulls.create" /\ Created(i)
    /\ result.status = "partial"

\* What the call in slot s must answer, going by its own arguments, the vendor
\* answers it received, the mode fixed at construction and, for a calendar
\* operation, the credentials it found.
OwnOutcomes(s) ==
    LET c      == inv[s]
        parsed == ParseArguments(c.op, c.bag)
        creds  == IF c.op \in CalendarOps THEN c.creds0 ELSE NoCredentials
    IN  IF ~parsed.ok
        THEN {Rejected("validation", parsed.issues)}
        ELSE {Outcome(Run(c.op, parsed.value, creds, WebSearchServiceConstructor(env),
                          rnd, c.got)) : rnd \in Draws(c.op)}

\* The slot's record apart from the mark of having run alone.
Own(c) == [c EXCEPT !.alone = TRUE]

NonEmpty(text) == Len(text) > 0 /\ \E i \in 1..Len(text) : text[i] \notin {"", NL}

\* C23: a tool call ends in exactly one of two ways: with a result whose one
\* text block is not empty, or with an error thrown to the caller; it never
\* ends with an empty result, and it has no answer before it ends.
C23_ResultOrError ==
    \A s \in Slots :
        LET r == inv[s].res
        IN  /\ inv[s].st \in {"idle", "running", "done"}
            /\ inv[s].st # "done" => r = NoOutcome
            /\ inv[s].st = "done" =>
                 \/ r.ok /\ r.kind = "result" /\ NonEmpty(r.text)
                 \/ ~r.ok /\ r.kind \in {"error", "validation"} /\ NonEmpty(r.text)

\* A tool call has failed at the vendor and thrown its error to the caller.
C23_Witness ==
    \E s \in Slots :
        /\ inv[s].st = "done"
        /\ inv[s].tool = "github_create_issue"
        /\ Len(inv[s].got) = 1
        /\ ~inv[s].got[1].ok
        /\ inv[s].res.kind = "error"

\* The result entries of a search result text: each ends in its "Type:" line.
Entries(text) == Cardinality({i \in 1..Len(text) : text[i] = "Type:"})

\* A live search has ended in slot s, the provider having answered.
LiveSearchEnded(s) ==
    /\ inv[s].st = "done"
    /\ inv[s].op = "search"
    /\ ParseArguments("search", inv[s].bag).ok
    /\ enabled
    /\ Len(inv[s].got) = 1
    /\ inv[s].got[1].ok

\* C24: a live search returns at most maxResults result entries, for every
\* numeric maxResults (0 and negative values included) and whatever instant
\* answer and related topics the provider returns.
C24_AtMostMaxResults ==
    \A s \in Slots :
        LiveSearchEnded(s) =>
            Entries(inv[s].res.text) <= Default(inv[s].a, "maxResults", 5)

\* A publish invocation that derives its branch name itself.
PublishDerives ==
    tool = "workflow_publish_content" /\ "branch" \notin DOMAIN args

\* The branches earlier invocations derived and created for this content id.
CreatedBefore == {h \in created : PublishDerives /\ h.contentId = args.contentId}

\* C25: publish content without a branch argument targets the branch earlier
\* invocations for the same content id created, whatever else they were given;
\* and when the source host then answers that the branch exists already, the
\* branch step is recorded as successful, the pull request is not skipped and
\* the invocation does not get past the pull-request step without a
\* createPullRequest call for that branch.
C25_SameContentSameBranch ==
    PublishDerives =>
        \A h \in CreatedBefore :
            /\ \A i \in 1..Len(connCalls) :
                 connCalls[i].op = "createBranch" =>
                    connCalls[i].arg.branchName = h.branch
            /\ CreateRefAlreadyExists =>
                 /\ Succeeded(outcomes, "branch")
                 /\ \A i \in 1..Len(outcomes) :
                      outcomes[i].step = "pr" => outcomes[i].status # "skipped"
                 /\ \/ pc = "pr"
                    \/ PullRequestIssuedFor(<<"refs/heads/">> \o h.branch)

\* C25 witness: a later publish invocation for a content id found the branch
\* an earlier one had created for it and went on to the pull request.
C25_Witness ==
    /\ PublishDerives
    /\ pc = "done"
    /\ args.repository = <<"docs-repo">>
    /\ CreatedBefore # {}
    /\ CreateRefAlreadyExists
    /\ HasVendorCall("pulls.create")

\* The call in slot s is an operation in progress, or ended, that was handed
\* arguments it accepts.
Accepted(s) ==
    /\ inv[s].st \in {"running", "done"}
    /\ inv[s].op \in ConnectorOps
    /\ ParseArguments(inv[s].op, inv[s].bag).ok

\* No call is made again and none follows a failed one: an operation issues
\* at most the calls it makes when all succeed, and after a call of its own
\* has failed it issues no further one (researchTopic goes on to its next
\* query, within the same count).
NoRetry(s) ==
    LET c == inv[s]
        n == Cardinality(CallsIssued(s))
    IN  /\ n <= CallsWhenAllSucceed(c.op, c.a, c.creds0, enabled)
        /\ c.op # "researchTopic" =>
             \A i \in 1..Len(c.got) : ~c.got[i].ok => n = i

\* C26: when every vendor call is answered in the end, every tool invocation
\* ends with a result or an error, having issued no more vendor calls than
\* its operation makes when all succeed and none after a failed one; two
\* calendar operations that both find the token expired end as well.
C26_EveryInvocationEnds ==
    /\ [](\A s \in Slots : Accepted(s) => NoRetry(s))
    /\ \A s \in Slots : (inv[s].st = "running") ~> (inv[s].st = "done")

\* C26 witness: two calendar operations found the token expired while the
\* other was in progress, each made its refresh call, and both have ended.
C26_Witness ==
    \A s \in Slots :
        /\ SawExpiredToken(s)
        /\ ~inv[s].alone
        /\ inv[s].st = "done"
        /\ LogPositions(inv[s].log, "settle", Refresh) # {}

\* The refresh call of the operation in slot s has been answered with a failure.
RefreshFailed(s) ==
    /\ LogPositions(inv[s].log, "settle", Refresh) # {}
    /\ ~inv[s].got[1].ok

\* C27: a calendar operation issues its calendar API call (events insert,
\* list, update or delete) only when the client's credentials hold an access
\* token, and, when they were expired as the operation started, only after a
\* refresh call of that same operation was answered with success; an operation
\* whose refresh failed issues no calendar API call.
C27_AuthenticatedBeforeTheCall ==
    \A s \in Slots :
        (Accepted(s) /\ inv[s].op \in CalendarOps) =>
            /\ \A i \in Substantive(inv[s].log) :
                 /\ inv[s].creds0.access_token
                 /\ credentials.access_token
                 /\ inv[s].creds0.expired =>
                      /\ \E j \in LogPositions(inv[s].log, "settle", Refresh) : j < i
                      /\ inv[s].got[1].ok
            /\ RefreshFailed(s) => Substantive(inv[s].log) = {}

\* C27 witness: deleteEvent started with an expired token, its refresh
\* succeeded and events.delete is in flight, while another calendar operation
\* has ended after its own refresh failed.
C27_Witness ==
    \E s \in Slots : \E t \in Slots \ {s} :
        /\ inv[s].op = "deleteEvent"
        /\ inv[s].creds0.expired
        /\ InFlight(s, "events.delete")
        /\ inv[t].st = "done"
        /\ inv[t].op \in CalendarOps
        /\ RefreshFailed(t)

\* The calendar operation in slot s started without an access token.
StartedWithoutToken(s) ==
    /\ Accepted(s)
    /\ inv[s].op \in CalendarOps
    /\ ~inv[s].creds0.access_token

\* C28: the calendar service reads the token file at construction only. A
\* token file written while the server is running leaves the client's
\* credentials as they are; a server that started without an access token
\* never comes to hold one, and none of its calendar operations issues a
\* vendor call.
C28_TokensAreReadAtStartOnly ==
    /\ [][(proc = "running" /\ tokenFile' # tokenFile) =>
             credentials' = credentials]_vars
    /\ [][(proc = "running" /\ ~credentials.access_token) =>
             ~credentials'.access_token]_vars
    /\ [](\A s \in Slots : StartedWithoutToken(s) => inv[s].log = << >>)

\* C28 witness: the OAuth server has written tokens to the file of a running
\* server that holds none, and a calendar operation of that server has ended
\* without a vendor call.
C28_Witness ==
    /\ proc = "running"
    /\ gen.file > 0
    /\ tokenFile.tokens.access_token
    /\ ~credentials.access_token
    /\ \E s \in Slots : StartedWithoutToken(s) /\ inv[s].st = "done"

\* The vendor calls of the createBranch in slot s, with their arguments, as
\* the answers received so far make them.
BranchCalls(s) ==
    createBranch(inv[s].a, Nth(inv[s].got, 1, VOk), Nth(inv[s].got, 2, VOk)).vcalls

\* A createBranch with accepted arguments is in progress or has ended in slot s.
CreatingBranch(s) == Accepted(s) /\ inv[s].op = "createBranch"

\* C29: createBranch issues git.createRef only after git.getRef has been
\* answered with success, and with the sha that answer carried; when the
\* lookup fails, no createRef is issued and the operation ends with the error
\* 'Failed to create GitHub branch: ...'.
C29_CreateAfterLookup ==
    \A s \in Slots :
        CreatingBranch(s) =>
            /\ \A i \in LogPositions(inv[s].log, "issue", "git.createRef") :
                 /\ \E j \in LogPositions(inv[s].log, "settle", "git.getRef") : j < i
                 /\ inv[s].got[1].ok
                 /\ BranchCalls(s)[2].api = "git.createRef"
                 /\ BranchCalls(s)[2].arg.sha = inv[s].got[1].sha
            /\ (inv[s].got # << >> /\ ~inv[s].got[1].ok) =>
                 /\ LogPositions(inv[s].log, "issue", "git.createRef") = {}
                 /\ inv[s].st = "done"
                 /\ ~inv[s].res.ok
                 /\ inv[s].res.kind = "error"
                 /\ Includes(inv[s].res.text, <<"Failed to create GitHub branch:">>)

\* C29 witness: the lookup of develop returned the second commit and the
\* branch was created from it.
C29_Witness ==
    \E s \in Slots :
        /\ CreatingBranch(s)
        /\ inv[s].st = "done"
        /\ inv[s].res.ok
        /\ Default(inv[s].a, "baseBranch", <<"main">>) = <<"develop">>
        /\ inv[s].got[1].sha = "sha-2"
        /\ BranchCalls(s)[2].arg.sha = "sha-2"

\* An updatePage with content and a status is in progress or has ended in
\* slot s.
UpdatingBoth(s) ==
    /\ Accepted(s)
    /\ inv[s].op = "updatePage"
    /\ "content" \in DOMAIN inv[s].a
    /\ "status" \in DOMAIN inv[s].a

\* The append of the updatePage in slot s failed after its property update
\* had succeeded.
AppendFailed(s) ==
    /\ Len(inv[s].got) >= 2
    /\ inv[s].got[1].ok
    /\ ~inv[s].got[2].ok

\* C30: updatePage with content and a status issues pages.update first and
\* blocks.children.append after its answer; when the append fails the
\* operation ends with the error 'Failed to update Notion page: ...' although
\* pages.update has applied the status, and it issues no call that would take
\* the change back.
C30_UpdateThenAppend ==
    \A s \in Slots :
        UpdatingBoth(s) =>
            /\ \A i \in LogPositions(inv[s].log, "issue", "blocks.children.append") :
                 \E j \in LogPositions(inv[s].log, "settle", "pages.update") :
                    j < i /\ inv[s].got[1].ok
            /\ AppendFailed(s) =>
                 /\ inv[s].st = "done"
                 /\ ~inv[s].res.ok
                 /\ Includes(inv[s].res.text, <<"Failed to update Notion page:">>)
                 /\ updatePage(inv[s].a, inv[s].got[1], inv[s].got[2]).vcalls[1].arg.status
                    = inv[s].a.status
                 /\ Apis(inv[s].log) = <<"pages.update", "pages.update",
                                        "blocks.children.append",
                                        "blocks.children.append">>

\* C30 witness: the status was set to Review, the append failed and the
\* caller got an error.
C30_Witness ==
    \E s \in Slots :
        /\ UpdatingBoth(s)
        /\ AppendFailed(s)
        /\ inv[s].st = "done"
        /\ inv[s].a.status = <<"Review">>
        /\ ~inv[s].res.ok

====
